---- MODULE Spec2Model ----
(***************************************************************************)
(* Model of the diff / mirror commands of the rc S3 CLI:                   *)
(*   crates/cli/src/commands/diff.rs    compare_objects                    *)
(*   crates/cli/src/commands/mirror.rs  compare_objects_internal, the      *)
(*                                      planning loop and the copy and     *)
(*                                      remove loops of execute            *)
(*                                                                         *)
(*   crates/core/src/retry.rs           retry_with_backoff,                *)
(*                                      calculate_backoff,                 *)
(*                                      is_retryable_error                 *)
(*   crates/s3/src/client.rs            the error mapping of the store     *)
(*                                      calls, ListResult                  *)
(*                                                                         *)
(* The specifications share the variables:                                 *)
(*   SpecCompare  draws two Listings and applies the two comparison        *)
(*                functions to them (pure functions);                      *)
(*   Spec         runs the mirror command from two materialized Listings   *)
(*                to its exit code;                                        *)
(*   SpecRetry    runs retry_with_backoff over an operation whose every    *)
(*                invocation succeeds or fails (SpecRetryFair: the         *)
(*                operation and the sleeps complete);                      *)
(*   SpecList     runs list_objects_map over a chain of list pages;        *)
(*   SpecBackoff  applies calculate_backoff to a configuration, an         *)
(*                attempt number and a clock reading;                      *)
(*   SpecClassify applies is_retryable_error to an error;                  *)
(*   SpecCommand  runs diff execute and mirror execute end to end, from    *)
(*                the list requests of the two stores to the exit code.    *)
(***************************************************************************)
EXTENDS Integers, Sequences, FiniteSets, TLC

VARIABLES
    first,           \* compare_objects: first  (HashMap<String, FileInfo>)
    second,          \* compare_objects: second
    diff_only,       \* compare_objects: diff_only
    cmp,             \* which comparison produced `entries`: "none" | "diff" | "mirror"
    entries,         \* the Vec<DiffEntry> the comparison returned
    source_objects,  \* mirror execute: source_objects
    target_objects,  \* mirror execute: target_objects
    args,            \* MirrorArgs: remove, overwrite, dry_run
    diff_entries,    \* mirror execute: diff_entries
    to_copy,         \* mirror execute: to_copy, Vec<(&str, &FileInfo)>
    to_remove,       \* mirror execute: to_remove, Vec<&str>
    skipped,         \* mirror execute: skipped
    copied,          \* mirror execute: copied
    removed,         \* mirror execute: removed
    errors,          \* mirror execute: errors
    pc,              \* position of mirror execute
    idx,             \* position of the running for loop (1-based)
    calls,           \* store calls issued so far, in order
    exit_code,       \* ExitCode returned by mirror execute, "none" while running
    source_store,    \* objects held by the source store, by absolute key
    target_store,    \* objects held by the target store, by absolute key
    output,          \* Option<MirrorOutput>: what mirror execute reported
    pipeline,        \* list_objects_map: "diff" (diff.rs) | "mirror" (mirror.rs)
    base_prefix,     \* list_objects_map: base_prefix (path.key)
    pages,           \* the ListResult the store answers with, page by page
    continuation_token, \* list_objects_map: continuation_token
    objects,         \* list_objects_map: objects
    list_pc,         \* position of list_objects_map
    list_requests,   \* continuation tokens of the list requests issued, in order
    list_returned,   \* Option<Result<HashMap, Error>>: what list_objects_map returned
    config,          \* retry_with_backoff: config (RetryConfig)
    is_retryable,    \* retry_with_backoff: is_retryable, "default" | "always" | "never"
    attempt,         \* retry_with_backoff: attempt
    retry_pc,        \* position of retry_with_backoff
    retry_log,       \* operation invocations and sleeps of the run, in order
    retry_returned,  \* Option<Result<T>>: what retry_with_backoff returned
    overflow_checks, \* whether the build panics on integer overflow (debug) or wraps
    nanos,           \* calculate_backoff alone: the clock's subsec_nanos
    backoff,         \* calculate_backoff alone: Option of what the call came to
    error_arg,       \* is_retryable_error alone: Option of the error handed in
    classified,      \* is_retryable_error alone: Option of what the call returned
    command,         \* the command that runs: "diff" | "mirror"
    paths,           \* the key (logical root) of the first and of the second path
    listed,          \* the ListResult chain of the first and of the second store
    summary          \* diff execute: Option<DiffSummary>

vars == << first, second, diff_only, cmp, entries, source_objects, target_objects,
           args, diff_entries, to_copy, to_remove, skipped, copied, removed,
           errors, pc, idx, calls, exit_code, source_store, target_store, output,
           pipeline, base_prefix, pages, continuation_token, objects, list_pc,
           list_requests, list_returned,
           config, is_retryable, attempt, retry_pc, retry_log, retry_returned,
           overflow_checks, nanos, backoff, error_arg, classified,
           command, paths, listed, summary >>

compareVars == << first, second, diff_only, cmp, entries >>
mirrorVars  == << source_objects, target_objects, args, diff_entries, to_copy,
                  to_remove, skipped, copied, removed, errors, pc, idx, calls,
                  exit_code, source_store, target_store, output >>
listVars    == << pipeline, base_prefix, pages, continuation_token, objects, list_pc,
                  list_requests, list_returned >>
retryVars   == << config, is_retryable, attempt, retry_pc, retry_log, retry_returned,
                  overflow_checks, nanos, backoff, error_arg, classified >>
commandVars == << command, paths, listed, summary >>

(***************************************************************************)
(* Bounds                                                                  *)
(***************************************************************************)
\* objects the two Listings handed to a comparison hold between them
MaxCompared == 3
\* objects the two stores of a mirror run hold between them
MaxObjects == 3

(***************************************************************************)
(* Data                                                                    *)
(***************************************************************************)
\* Option<T>
None == << >>
Some(v) == << v >>
Option(S) == {None} \cup {Some(v) : v \in S}

\* Keys are Rust Strings: sequences of characters.
Keys == { << "a" >>, << "a", "/", "b" >>, << "b" >> }

Sizes == {100, 200}
Etags == {"x", "y"}
Times == {"t1"}

FileInfo == [size : Option(Sizes), modified : Option(Times), etag : Option(Etags)]

\* The FileInfo values the compared Listings are drawn from.
FileInfos ==
    [size : {Some(n) : n \in Sizes}, modified : Option(Times), etag : Option(Etags)]
      \cup { [size |-> None, modified |-> None, etag |-> Some("x")] }

\* The FileInfo values the Listings of a mirror run are drawn from.
MirrorFileInfos ==
    { [size |-> Some(100), modified |-> None, etag |-> Some("x")],
      [size |-> Some(200), modified |-> None, etag |-> Some("y")],
      [size |-> Some(100), modified |-> Some("t1"), etag |-> None] }

DiffStatus == {"Same", "Different", "OnlyFirst", "OnlySecond"}

EmptyMap == [k \in {} |-> None]

\* Every order in which a HashMap with key set S may be enumerated.
Orders(S) ==
    { o \in [1..Cardinality(S) -> S] : \A i, j \in 1..Cardinality(S) : o[i] = o[j] => i = j }

\* The two Listings are drawn slot by slot: a slot is a key on one side.
Slots == Keys \X {1, 2}
Shapes(max) == { S \in SUBSET Slots : Cardinality(S) <= max }
Side(f, n) == [k \in {k \in Keys : << k, n >> \in DOMAIN f} |-> f[<< k, n >>]]

(***************************************************************************)
(* String ordering: a.key.cmp(&b.key) compares byte-wise.                  *)
(***************************************************************************)
Byte(c) ==
    CASE c = "/" -> 47
      [] c = "a" -> 97
      [] c = "b" -> 98
      [] c = "d" -> 100
      [] c = "p" -> 112

RECURSIVE cmp_str(_, _)
cmp_str(a, b) ==
    IF a = << >> THEN (IF b = << >> THEN "Equal" ELSE "Less")
    ELSE IF b = << >> THEN "Greater"
    ELSE IF Byte(Head(a)) < Byte(Head(b)) THEN "Less"
    ELSE IF Byte(Head(a)) > Byte(Head(b)) THEN "Greater"
    ELSE cmp_str(Tail(a), Tail(b))

\* Vec::sort_by is a stable sort: an element goes after the elements that do
\* not compare Greater than it.
RECURSIVE insert_by_key(_, _)
insert_by_key(e, s) ==
    IF s = << >> THEN << e >>
    ELSE IF cmp_str(e.key, Head(s).key) = "Less" THEN << e >> \o s
    ELSE << Head(s) >> \o insert_by_key(e, Tail(s))

RECURSIVE sort_from(_, _)
sort_from(s, acc) ==
    IF s = << >> THEN acc ELSE sort_from(Tail(s), insert_by_key(Head(s), acc))

sort_by_key_unsorted(s) == s
sort_by_key(s) == sort_from(s, << >>)

(***************************************************************************)
(* diff.rs: compare_objects                                                *)
(***************************************************************************)
diff_is_same(first_info, second_info) ==
    /\ first_info.size = second_info.size
    /\ (first_info.etag = second_info.etag \/ first_info.etag = None)

\* the entry pushed for a key of `first`
diff_first_entry(fst, snd, key) ==
    IF key \in DOMAIN snd
    THEN [ key             |-> key,
           status          |-> IF diff_is_same(fst[key], snd[key])
                               THEN "Same" ELSE "Different",
           first_size      |-> fst[key].size,
           second_size     |-> snd[key].size,
           first_modified  |-> fst[key].modified,
           second_modified |-> snd[key].modified ]
    ELSE [ key             |-> key,
           status          |-> "OnlyFirst",
           first_size      |-> fst[key].size,
           second_size     |-> None,
           first_modified  |-> fst[key].modified,
           second_modified |-> None ]

diff_first_pushes_hides_different(snd, d_only, e) ==
    e.key \in DOMAIN snd => ~d_only

\* whether the first loop pushes the entry of a key
diff_first_pushes(snd, d_only, e) ==
    e.key \in DOMAIN snd => (~d_only \/ e.status # "Same")

\* the entry pushed for a key of `second`
diff_second_entry_fills_first(snd, key) ==
    [ key             |-> key,
      status          |-> "OnlySecond",
      first_size      |-> snd[key].size,
      second_size     |-> snd[key].size,
      first_modified  |-> None,
      second_modified |-> snd[key].modified ]
diff_second_entry_mislabelled(snd, key) ==
    [ key             |-> key,
      status          |-> "OnlyFirst",
      first_size      |-> None,
      second_size     |-> snd[key].size,
      first_modified  |-> None,
      second_modified |-> snd[key].modified ]
diff_second_entry(snd, key) ==
    [ key             |-> key,
      status          |-> "OnlySecond",
      first_size      |-> None,
      second_size     |-> snd[key].size,
      first_modified  |-> None,
      second_modified |-> snd[key].modified ]

diff_second_pushes_all(fst, key) == TRUE
diff_second_pushes(fst, key) == key \notin DOMAIN fst

\* o1, o2: the orders in which the two HashMaps are enumerated
compare_objects(fst, snd, d_only, o1, o2) ==
    LET loop1 == SelectSeq([i \in 1..Len(o1) |-> diff_first_entry(fst, snd, o1[i])],
                           LAMBDA e : diff_first_pushes(snd, d_only, e))
        keys2 == SelectSeq(o2, LAMBDA k : diff_second_pushes(fst, k))
        loop2 == [i \in 1..Len(keys2) |-> diff_second_entry(snd, keys2[i])]
    IN  sort_by_key(loop1 \o loop2)

(***************************************************************************)
(* mirror.rs: compare_objects_internal                                     *)
(***************************************************************************)
mirror_is_same_etag_only(source_info, target_info) ==
    source_info.size = target_info.size /\ source_info.etag = target_info.etag
mirror_is_same(source_info, target_info) ==
    /\ source_info.size = target_info.size
    /\ (source_info.etag = target_info.etag \/ source_info.etag = None)

mirror_source_entry(source, target, key) ==
    IF key \in DOMAIN target
    THEN [ key             |-> key,
           status          |-> IF mirror_is_same(source[key], target[key])
                               THEN "Same" ELSE "Different",
           first_size      |-> source[key].size,
           second_size     |-> target[key].size,
           first_modified  |-> source[key].modified,
           second_modified |-> target[key].modified ]
    ELSE [ key             |-> key,
           status          |-> "OnlyFirst",
           first_size      |-> source[key].size,
           second_size     |-> None,
           first_modified  |-> source[key].modified,
           second_modified |-> None ]

mirror_target_entry(target, key) ==
    [ key             |-> key,
      status          |-> "OnlySecond",
      first_size      |-> None,
      second_size     |-> target[key].size,
      first_modified  |-> None,
      second_modified |-> target[key].modified ]

mirror_target_pushes(source, key) == key \notin DOMAIN source

mirror_sort_in_push_order(s) == s
mirror_sort(s) == sort_from(s, << >>)

compare_objects_internal(source, target, o1, o2) ==
    LET loop1 == [i \in 1..Len(o1) |-> mirror_source_entry(source, target, o1[i])]
        keys2 == SelectSeq(o2, LAMBDA k : mirror_target_pushes(source, k))
        loop2 == [i \in 1..Len(keys2) |-> mirror_target_entry(target, keys2[i])]
    IN  mirror_sort(loop1 \o loop2)

(***************************************************************************)
(* SpecCompare: the comparison functions applied to drawn Listings         *)
(***************************************************************************)
(***************************************************************************)
(* u64: four 16-bit limbs, the most significant first                      *)
(***************************************************************************)
Limb == 65536
\* the u64 of a number below 2^31
u64(n) == << 0, 0, n \div Limb, n % Limb >>
u64_MAX == << Limb - 1, Limb - 1, Limb - 1, Limb - 1 >>
u64_lt(a, b) == \E i \in 1 .. 4 : a[i] < b[i] /\ \A j \in 1 .. i - 1 : a[j] = b[j]
u64_le(a, b) == ~u64_lt(b, a)
\* Ord::min, Ord::max
u64_min(a, b) == IF u64_lt(b, a) THEN b ELSE a
u64_max(a, b) == IF u64_lt(a, b) THEN b ELSE a
\* a << sh for sh < 16, the bits shifted out dropped; and whether any bit set
\* was shifted out
u64_shl(a, sh) ==
    [i \in 1 .. 4 |->
        ((a[i] * 2 ^ sh) % Limb) + (IF i < 4 THEN (a[i + 1] * 2 ^ sh) \div Limb ELSE 0)]
u64_shl_overflows(a, sh) == (a[1] * 2 ^ sh) \div Limb > 0
\* a + b modulo 2^64, and whether the sum reached 2^64
u64_add(a, b) ==
    LET s4 == a[4] + b[4]
        s3 == a[3] + b[3] + (s4 \div Limb)
        s2 == a[2] + b[2] + (s3 \div Limb)
        s1 == a[1] + b[1] + (s2 \div Limb)
    IN  << s1 % Limb, s2 % Limb, s3 % Limb, s4 % Limb >>
u64_add_overflows(a, b) ==
    LET s4 == a[4] + b[4]
        s3 == a[3] + b[3] + (s4 \div Limb)
        s2 == a[2] + b[2] + (s3 \div Limb)
        s1 == a[1] + b[1] + (s2 \div Limb)
    IN  s1 \div Limb > 0
\* n % m for a number n below 2^30
u64_rem(n, m) ==
    IF m[1] > 0 \/ m[2] > 0 \/ m[3] >= 16384 THEN u64(n)
    ELSE u64(n % (m[3] * Limb + m[4]))

\* Result<T>
Ok(v) == [tag |-> "Ok", val |-> v]
Err(e) == [tag |-> "Err", val |-> e]

CommandIdle ==
    /\ command = "none"
    /\ paths = [first |-> << >>, second |-> << >>]
    /\ listed = [first |-> << >>, second |-> << >>]
    /\ summary = None

ListIdle ==
    /\ pipeline = "none"
    /\ base_prefix = << >>
    /\ pages = << >>
    /\ continuation_token = None
    /\ objects = EmptyMap
    /\ list_pc = "idle"
    /\ list_requests = << >>
    /\ list_returned = None

RetryIdle ==
    /\ config = [max_attempts |-> 0, initial_backoff_ms |-> u64(0), max_backoff_ms |-> u64(0)]
    /\ is_retryable = "none"
    /\ attempt = 0
    /\ retry_pc = "idle"
    /\ retry_log = << >>
    /\ retry_returned = None
    /\ overflow_checks = FALSE
    /\ nanos = 0
    /\ backoff = None
    /\ error_arg = None
    /\ classified = None

MirrorIdle ==
    /\ source_objects = EmptyMap
    /\ target_objects = EmptyMap
    /\ args = [remove |-> FALSE, overwrite |-> FALSE, dry_run |-> FALSE]
    /\ diff_entries = << >>
    /\ to_copy = << >>
    /\ to_remove = << >>
    /\ skipped = 0
    /\ copied = 0
    /\ removed = 0
    /\ errors = 0
    /\ pc = "idle"
    /\ idx = 0
    /\ calls = << >>
    /\ exit_code = "none"
    /\ source_store = EmptyMap
    /\ target_store = EmptyMap
    /\ output = None

InitCompare ==
    /\ \E S \in Shapes(MaxCompared) : \E f \in [S -> FileInfos] :
          /\ first = Side(f, 1)
          /\ second = Side(f, 2)
    /\ diff_only = FALSE
    /\ cmp = "none"
    /\ entries = << >>
    /\ CommandIdle
    /\ MirrorIdle
    /\ ListIdle
    /\ RetryIdle

CompareObjects ==
    /\ cmp = "none"
    /\ \E d \in BOOLEAN, o1 \in Orders(DOMAIN first), o2 \in Orders(DOMAIN second) :
          /\ diff_only' = d
          /\ entries' = compare_objects(first, second, d, o1, o2)
    /\ cmp' = "diff"
    /\ UNCHANGED << first, second >>
    /\ UNCHANGED mirrorVars
    /\ UNCHANGED << listVars, retryVars, commandVars >>

CompareObjectsInternal ==
    /\ cmp = "none"
    /\ \E o1 \in Orders(DOMAIN first), o2 \in Orders(DOMAIN second) :
          entries' = compare_objects_internal(first, second, o1, o2)
    /\ cmp' = "mirror"
    /\ UNCHANGED << first, second, diff_only >>
    /\ UNCHANGED mirrorVars
    /\ UNCHANGED << listVars, retryVars, commandVars >>

NextCompare == CompareObjects \/ CompareObjectsInternal

SpecCompare == InitCompare /\ [][NextCompare]_vars

(***************************************************************************)
(* mirror.rs: execute, from the two materialized Listings on               *)
(***************************************************************************)
\* one iteration of `for entry in &diff_entries` (the planning loop)
plan_step_always_overwrites(plan, entry, source, a) ==
    CASE entry.status = "OnlyFirst" ->
           [plan EXCEPT !.to_copy = Append(@, << entry.key, source[entry.key] >>)]
      [] entry.status = "Different" ->
           [plan EXCEPT !.to_copy = Append(@, << entry.key, source[entry.key] >>)]
      [] entry.status = "OnlySecond" ->
           IF a.remove
           THEN [plan EXCEPT !.to_remove = Append(@, entry.key)]
           ELSE plan
      [] entry.status = "Same" ->
           [plan EXCEPT !.skipped = @ + 1]

plan_step_removes_only_first(plan, entry, source, a) ==
    CASE entry.status = "OnlyFirst" ->
           IF a.remove
           THEN [plan EXCEPT !.to_remove = Append(@, entry.key)]
           ELSE [plan EXCEPT !.to_copy = Append(@, << entry.key, source[entry.key] >>)]
      [] entry.status = "Different" ->
           IF a.overwrite
           THEN [plan EXCEPT !.to_copy = Append(@, << entry.key, source[entry.key] >>)]
           ELSE [plan EXCEPT !.skipped = @ + 1]
      [] entry.status = "OnlySecond" ->
           IF a.remove
           THEN [plan EXCEPT !.to_remove = Append(@, entry.key)]
           ELSE plan
      [] entry.status = "Same" ->
           [plan EXCEPT !.skipped = @ + 1]

plan_step_deletes_before_overwrite(plan, entry, source, a) ==
    CASE entry.status = "OnlyFirst" ->
           IF entry.key \in DOMAIN source
           THEN [plan EXCEPT !.to_copy = Append(@, << entry.key, source[entry.key] >>)]
           ELSE plan
      [] entry.status = "Different" ->
           IF a.overwrite
           THEN IF entry.key \in DOMAIN source
                THEN [plan EXCEPT !.to_copy = Append(@, << entry.key, source[entry.key] >>),
                                  !.to_remove = Append(@, entry.key)]
                ELSE plan
           ELSE [plan EXCEPT !.skipped = @ + 1]
      [] entry.status = "OnlySecond" ->
           IF a.remove
           THEN [plan EXCEPT !.to_remove = Append(@, entry.key)]
           ELSE plan
      [] entry.status = "Same" ->
           [plan EXCEPT !.skipped = @ + 1]

plan_step_pushes_front(plan, entry, source, a) ==
    CASE entry.status = "OnlyFirst" ->
           IF entry.key \in DOMAIN source
           THEN [plan EXCEPT !.to_copy = << << entry.key, source[entry.key] >> >> \o @]
           ELSE plan
      [] entry.status = "Different" ->
           IF a.overwrite
           THEN IF entry.key \in DOMAIN source
                THEN [plan EXCEPT !.to_copy = << << entry.key, source[entry.key] >> >> \o @]
                ELSE plan
           ELSE [plan EXCEPT !.skipped = @ + 1]
      [] entry.status = "OnlySecond" ->
           IF a.remove
           THEN [plan EXCEPT !.to_remove = << entry.key >> \o @]
           ELSE plan
      [] entry.status = "Same" ->
           [plan EXCEPT !.skipped = @ + 1]

plan_step(plan, entry, source, a) ==
    CASE entry.status = "OnlyFirst" ->
           IF entry.key \in DOMAIN source
           THEN [plan EXCEPT !.to_copy = Append(@, << entry.key, source[entry.key] >>)]
           ELSE plan
      [] entry.status = "Different" ->
           IF a.overwrite
           THEN IF entry.key \in DOMAIN source
                THEN [plan EXCEPT !.to_copy = Append(@, << entry.key, source[entry.key] >>)]
                ELSE plan
           ELSE [plan EXCEPT !.skipped = @ + 1]
      [] entry.status = "OnlySecond" ->
           IF a.remove
           THEN [plan EXCEPT !.to_remove = Append(@, entry.key)]
           ELSE plan
      [] entry.status = "Same" ->
           [plan EXCEPT !.skipped = @ + 1]

RECURSIVE plan_loop(_, _, _, _)
plan_loop(plan, es, source, a) ==
    IF es = << >> THEN plan
    ELSE plan_loop(plan_step(plan, Head(es), source, a), Tail(es), source, a)

\* to_copy, to_remove and skipped as the planning loop leaves them
mirror_plan(es, source, a) ==
    plan_loop([to_copy |-> << >>, to_remove |-> << >>, skipped |-> 0], es, source, a)

(***************************************************************************)
(* Errors and their classification (crates/core/src/retry.rs)              *)
(* Strings are sequences of one-character strings.                         *)
(***************************************************************************)
\* enum Error, the variants the code below constructs or matches
Network(msg) == [kind |-> "Network", msg |-> msg, io_kind |-> "none"]
NotFound(msg) == [kind |-> "NotFound", msg |-> msg, io_kind |-> "none"]
General(msg) == [kind |-> "General", msg |-> msg, io_kind |-> "none"]
Auth(msg) == [kind |-> "Auth", msg |-> msg, io_kind |-> "none"]
Io(io_kind) == [kind |-> "Io", msg |-> << >>, io_kind |-> io_kind]

UpperCase == << "A", "B", "C", "D", "E", "F", "G", "H", "I", "J", "K", "L", "M",
               "N", "O", "P", "Q", "R", "S", "T", "U", "V", "W", "X", "Y", "Z" >>
LowerCase == << "a", "b", "c", "d", "e", "f", "g", "h", "i", "j", "k", "l", "m",
               "n", "o", "p", "q", "r", "s", "t", "u", "v", "w", "x", "y", "z" >>
\* str::to_lowercase
to_lowercase(msg) ==
    [i \in DOMAIN msg |->
        IF \E j \in DOMAIN UpperCase : UpperCase[j] = msg[i]
        THEN LowerCase[CHOOSE j \in DOMAIN UpperCase : UpperCase[j] = msg[i]]
        ELSE msg[i]]
\* str::contains
contains(hay, needle) ==
    \E i \in 0 .. (Len(hay) - Len(needle)) : SubSeq(hay, i + 1, i + Len(needle)) = needle

lit_timeout == << "t", "i", "m", "e", "o", "u", "t" >>
lit_connection_reset == << "c", "o", "n", "n", "e", "c", "t", "i", "o", "n", " ", "r", "e", "s", "e", "t" >>
lit_connection_refused == << "c", "o", "n", "n", "e", "c", "t", "i", "o", "n", " ", "r", "e", "f", "u", "s", "e", "d" >>
lit_503 == << "5", "0", "3" >>
lit_service_unavailable == << "s", "e", "r", "v", "i", "c", "e", " ", "u", "n", "a", "v", "a", "i", "l", "a", "b", "l", "e" >>
lit_too_many_requests == << "t", "o", "o", " ", "m", "a", "n", "y", " ", "r", "e", "q", "u", "e", "s", "t", "s" >>
lit_429 == << "4", "2", "9" >>
lit_request_rate == << "r", "e", "q", "u", "e", "s", "t", " ", "r", "a", "t", "e" >>
lit_slow_down == << "s", "l", "o", "w", " ", "d", "o", "w", "n" >>
lit_temporary == << "t", "e", "m", "p", "o", "r", "a", "r", "y" >>
lit_NotFound == << "N", "o", "t", "F", "o", "u", "n", "d" >>
lit_NoSuchKey == << "N", "o", "S", "u", "c", "h", "K", "e", "y" >>

is_retryable_error_always(error) == TRUE
is_retryable_error(error) ==
    CASE error.kind = "Network" ->
           LET msg_lower == to_lowercase(error.msg)
           IN  \/ contains(msg_lower, lit_timeout)
               \/ contains(msg_lower, lit_connection_reset)
               \/ contains(msg_lower, lit_connection_refused)
               \/ contains(msg_lower, lit_503)
               \/ contains(msg_lower, lit_service_unavailable)
               \/ contains(msg_lower, lit_too_many_requests)
               \/ contains(msg_lower, lit_429)
               \/ contains(msg_lower, lit_request_rate)
               \/ contains(msg_lower, lit_slow_down)
      [] error.kind = "Io" ->
           error.io_kind \in {"ConnectionReset", "ConnectionRefused", "TimedOut", "Interrupted"}
      [] error.kind \in {"Auth", "NotFound", "AliasNotFound", "Conflict", "InvalidPath",
                         "Config", "UnsupportedFeature"} -> FALSE
      [] error.kind = "General" ->
           LET msg_lower == to_lowercase(error.msg)
           IN  contains(msg_lower, lit_timeout) \/ contains(msg_lower, lit_temporary)
      [] OTHER -> FALSE

(***************************************************************************)
(* Store client errors (crates/s3/src/client.rs)                           *)
(***************************************************************************)
\* what the SDK's error displays as, e.to_string()
SdkErrors == { << "R", "e", "q", "u", "e", "s", "t", " ", "T", "i", "m", "e", "o", "u", "t" >>, << "N", "o", "S", "u", "c", "h", "K", "e", "y", ":", " ", "g", "o", "n", "e" >> }
\* RemotePath::new(alias, bucket, key)
RemotePath(alias, bucket, key) == [alias |-> alias, bucket |-> bucket, key |-> key]
\* path.to_string() of a RemotePath with a key: alias/bucket/key
to_string(path) == path.alias \o << "/" >> \o path.bucket \o << "/" >> \o path.key
\* the alias and the bucket of the two paths of a command
path_alias == [first |-> << "f", "i", "r", "s", "t" >>,
               second |-> << "s", "e", "c", "o", "n", "d" >>]
path_bucket == << "b", "u", "c", "k", "e", "t" >>

\* the map_err closures of get_object and delete_object, called with `path`:
\* Error::NotFound(path.to_string()) or Error::Network(err_str)
not_found_or_network(err_str, path) ==
    IF contains(err_str, lit_NotFound) \/ contains(err_str, lit_NoSuchKey)
    THEN NotFound(to_string(path))
    ELSE Network(err_str)
\* the map_err closure of put_object
network_error(err_str, path) == Network(err_str)

\* format!("{}{sep}{key}", path.key), mirror.rs 257-277 and 312-322
full_key(root, key) ==
    LET sep == IF root = << >> \/ root[Len(root)] = "/" THEN << >> ELSE << "/" >>
    IN  root \o sep \o key
\* the RemotePath a relative key is fetched from, and the one it is put to or
\* deleted at
source_full(key) == RemotePath(path_alias.first, path_bucket, full_key(paths.first, key))
target_full(key) == RemotePath(path_alias.second, path_bucket, full_key(paths.second, key))

\* a call on a store for the relative key `key`, issued with the RemotePath
\* `path`
Call(op, store, key) ==
    [op |-> op, store |-> store, key |-> key,
     path |-> IF store = "source" THEN source_full(key) ELSE target_full(key),
     result |-> "pending", error |-> None]

\* the awaited call (the last one issued) resolves
Resolve(cs, result) == [cs EXCEPT ![Len(cs)].result = result]
ResolveErr(cs, e) == [cs EXCEPT ![Len(cs)].result = "err", ![Len(cs)].error = Some(e)]

\* the effect of a successful put_object / delete_object on a store
put_object(store, key, data) ==
    [k \in DOMAIN store \cup {key} |-> IF k = key THEN data ELSE store[k]]
delete_object(store, key) == [k \in DOMAIN store \ {key} |-> store[k]]

\* struct MirrorOutput (source and target are the arguments, left out)
MirrorOutput(c, r, s, e, d) ==
    [copied |-> c, removed |-> r, skipped |-> s, errors |-> e, dry_run |-> d]

\* what the dry run reports about its plan
dry_run_output_counts_skipped_as_copied(tc, tr, sk) ==
    MirrorOutput(Len(tc) + sk, Len(tr), sk, 0, TRUE)
dry_run_output(tc, tr, sk) == MirrorOutput(Len(tc), Len(tr), sk, 0, TRUE)

Init ==
    /\ first = EmptyMap
    /\ second = EmptyMap
    /\ diff_only = FALSE
    /\ cmp = "none"
    /\ entries = << >>
    /\ CommandIdle
    /\ \E S \in Shapes(MaxObjects) : \E f \in [S -> MirrorFileInfos] :
          /\ source_objects = Side(f, 1)
          /\ target_objects = Side(f, 2)
    /\ args \in [remove : BOOLEAN, overwrite : BOOLEAN, dry_run : BOOLEAN]
    /\ diff_entries = << >>
    /\ to_copy = << >>
    /\ to_remove = << >>
    /\ skipped = 0
    /\ copied = 0
    /\ removed = 0
    /\ errors = 0
    /\ pc = "start"
    /\ idx = 0
    /\ calls = << >>
    /\ exit_code = "none"
    /\ source_store = source_objects
    /\ target_store = target_objects
    /\ output = None
    /\ ListIdle
    /\ RetryIdle

\* lines 149-184: compare, then the planning loop
Plan ==
    /\ pc = "start"
    /\ \E o1 \in Orders(DOMAIN source_objects), o2 \in Orders(DOMAIN target_objects) :
          LET es == compare_objects_internal(source_objects, target_objects, o1, o2)
              plan == mirror_plan(es, source_objects, args)
          IN  /\ diff_entries' = es
              /\ to_copy' = plan.to_copy
              /\ to_remove' = plan.to_remove
              /\ skipped' = plan.skipped
    /\ pc' = "planned"
    /\ UNCHANGED << source_objects, target_objects, args, copied, removed, errors,
                    idx, calls, exit_code >>
    /\ UNCHANGED << source_store, target_store, output >>
    /\ UNCHANGED compareVars
    /\ UNCHANGED << listVars, retryVars, commandVars >>

\* lines 186-231: the dry run reports the plan and returns
DryRun ==
    /\ pc = "planned"
    /\ args.dry_run
    /\ output' = Some(dry_run_output(to_copy, to_remove, skipped))
    /\ exit_code' = "Success"
    /\ pc' = "done"
    /\ UNCHANGED << source_objects, target_objects, args, diff_entries, to_copy,
                    to_remove, skipped, copied, removed, errors, idx, calls >>
    /\ UNCHANGED << source_store, target_store >>
    /\ UNCHANGED compareVars
    /\ UNCHANGED << listVars, retryVars, commandVars >>

StartCopy_ignores_dry_run ==
    /\ pc = "planned"
    /\ copied' = 0
    /\ errors' = 0
    /\ idx' = 1
    /\ pc' = "copy"
    /\ UNCHANGED << source_objects, target_objects, args, diff_entries, to_copy,
                    to_remove, skipped, removed, calls, exit_code >>
    /\ UNCHANGED << source_store, target_store, output >>
    /\ UNCHANGED compareVars
    /\ UNCHANGED << listVars, retryVars, commandVars >>

\* lines 252-256: the copy loop is entered
StartCopy ==
    /\ pc = "planned"
    /\ ~args.dry_run
    /\ copied' = 0
    /\ errors' = 0
    /\ idx' = 1
    /\ pc' = "copy"
    /\ UNCHANGED << source_objects, target_objects, args, diff_entries, to_copy,
                    to_remove, skipped, removed, calls, exit_code >>
    /\ UNCHANGED << source_store, target_store, output >>
    /\ UNCHANGED compareVars
    /\ UNCHANGED << listVars, retryVars, commandVars >>

\* line 280: source_client.get_object(&source_full) is issued
GetObject ==
    /\ pc = "copy"
    /\ idx <= Len(to_copy)
    /\ calls' = Append(calls, Call("get", "source", to_copy[idx][1]))
    /\ pc' = "get"
    /\ UNCHANGED << source_objects, target_objects, args, diff_entries, to_copy,
                    to_remove, skipped, copied, removed, errors, idx, exit_code >>
    /\ UNCHANGED << source_store, target_store, output >>
    /\ UNCHANGED compareVars
    /\ UNCHANGED << listVars, retryVars, commandVars >>

GetObjectOk_puts_to_source ==
    /\ pc = "get"
    /\ source_full(to_copy[idx][1]).key \in DOMAIN source_store
    /\ calls' = Append(Resolve(calls, "ok"), Call("put", "source", to_copy[idx][1]))
    /\ pc' = "put"
    /\ UNCHANGED << source_objects, target_objects, args, diff_entries, to_copy,
                    to_remove, skipped, copied, removed, errors, idx, exit_code >>
    /\ UNCHANGED << source_store, target_store, output >>
    /\ UNCHANGED compareVars
    /\ UNCHANGED << listVars, retryVars, commandVars >>

\* line 281: the get returned Ok(data); target_client.put_object is issued
GetObjectOk ==
    /\ pc = "get"
    /\ source_full(to_copy[idx][1]).key \in DOMAIN source_store
    /\ calls' = Append(Resolve(calls, "ok"), Call("put", "target", to_copy[idx][1]))
    /\ pc' = "put"
    /\ UNCHANGED << source_objects, target_objects, args, diff_entries, to_copy,
                    to_remove, skipped, copied, removed, errors, idx, exit_code >>
    /\ UNCHANGED << source_store, target_store, output >>
    /\ UNCHANGED compareVars
    /\ UNCHANGED << listVars, retryVars, commandVars >>

\* where the copy loop goes after an iteration
after_copy_aborts(i) == [pc |-> "remove", idx |-> 1]
after_copy(i) == [pc |-> "copy", idx |-> i + 1]

errors_after_failure_uncounted(n) == n
errors_after_failure(n) == n + 1

\* line 326: removed += 1
removed_after_delete_counts_twice(n) == n + 2
removed_after_delete(n) == n + 1

GetObjectErr_still_puts ==
    /\ pc = "get"
    /\ \E err_str \in SdkErrors :
          calls' = Append(ResolveErr(calls, not_found_or_network(err_str, source_full(to_copy[idx][1]))),
                          Call("put", "target", to_copy[idx][1]))
    /\ errors' = errors_after_failure(errors)
    /\ pc' = "put"
    /\ UNCHANGED << source_objects, target_objects, args, diff_entries, to_copy,
                    to_remove, skipped, copied, removed, idx, exit_code >>
    /\ UNCHANGED << source_store, target_store, output >>
    /\ UNCHANGED compareVars
    /\ UNCHANGED << listVars, retryVars, commandVars >>

\* lines 295-300: the get returned Err(e)
GetObjectErr ==
    /\ pc = "get"
    /\ \E err_str \in SdkErrors :
          calls' = ResolveErr(calls, not_found_or_network(err_str, source_full(to_copy[idx][1])))
    /\ errors' = errors_after_failure(errors)
    /\ pc' = after_copy(idx).pc
    /\ idx' = after_copy(idx).idx
    /\ UNCHANGED << source_objects, target_objects, args, diff_entries, to_copy,
                    to_remove, skipped, copied, removed, exit_code >>
    /\ UNCHANGED << source_store, target_store, output >>
    /\ UNCHANGED compareVars
    /\ UNCHANGED << listVars, retryVars, commandVars >>

\* lines 282-287: the put returned Ok(_)
PutObjectOk ==
    /\ pc = "put"
    /\ calls' = Resolve(calls, "ok")
    /\ target_store' = put_object(target_store, target_full(to_copy[idx][1]).key,
                                  source_store[source_full(to_copy[idx][1]).key])
    /\ copied' = copied + 1
    /\ pc' = after_copy(idx).pc
    /\ idx' = after_copy(idx).idx
    /\ UNCHANGED << source_objects, target_objects, args, diff_entries, to_copy,
                    to_remove, skipped, removed, errors, exit_code >>
    /\ UNCHANGED << source_store, output >>
    /\ UNCHANGED compareVars
    /\ UNCHANGED << listVars, retryVars, commandVars >>

\* lines 288-293: the put returned Err(e)
PutObjectErr ==
    /\ pc = "put"
    /\ \E err_str \in SdkErrors :
          calls' = ResolveErr(calls, network_error(err_str, target_full(to_copy[idx][1])))
    /\ errors' = errors_after_failure(errors)
    /\ pc' = after_copy(idx).pc
    /\ idx' = after_copy(idx).idx
    /\ UNCHANGED << source_objects, target_objects, args, diff_entries, to_copy,
                    to_remove, skipped, copied, removed, exit_code >>
    /\ UNCHANGED << source_store, target_store, output >>
    /\ UNCHANGED compareVars
    /\ UNCHANGED << listVars, retryVars, commandVars >>

\* whether the copy loop is over at position i
copy_loop_over_early(i, n) == TRUE
copy_loop_over(i, n) == i > n

\* lines 306-311: the copy loop is over
EndCopy ==
    /\ pc = "copy"
    /\ copy_loop_over(idx, Len(to_copy))
    /\ removed' = 0
    /\ idx' = 1
    /\ pc' = "remove"
    /\ UNCHANGED << source_objects, target_objects, args, diff_entries, to_copy,
                    to_remove, skipped, copied, errors, calls, exit_code >>
    /\ UNCHANGED << source_store, target_store, output >>
    /\ UNCHANGED compareVars
    /\ UNCHANGED << listVars, retryVars, commandVars >>

\* line 324: target_client.delete_object(&target_full) is issued
DeleteObject ==
    /\ pc = "remove"
    /\ args.remove
    /\ idx <= Len(to_remove)
    /\ calls' = Append(calls, Call("delete", "target", to_remove[idx]))
    /\ pc' = "delete"
    /\ UNCHANGED << source_objects, target_objects, args, diff_entries, to_copy,
                    to_remove, skipped, copied, removed, errors, idx, exit_code >>
    /\ UNCHANGED << source_store, target_store, output >>
    /\ UNCHANGED compareVars
    /\ UNCHANGED << listVars, retryVars, commandVars >>

\* lines 325-330: the delete returned Ok(_)
DeleteObjectOk ==
    /\ pc = "delete"
    /\ calls' = Resolve(calls, "ok")
    /\ target_store' = delete_object(target_store, target_full(to_remove[idx]).key)
    /\ removed' = removed_after_delete(removed)
    /\ idx' = idx + 1
    /\ pc' = "remove"
    /\ UNCHANGED << source_objects, target_objects, args, diff_entries, to_copy,
                    to_remove, skipped, copied, errors, exit_code >>
    /\ UNCHANGED << source_store, output >>
    /\ UNCHANGED compareVars
    /\ UNCHANGED << listVars, retryVars, commandVars >>

\* lines 331-336: the delete returned Err(e)
DeleteObjectErr ==
    /\ pc = "delete"
    /\ \E err_str \in SdkErrors :
          calls' = ResolveErr(calls, not_found_or_network(err_str, target_full(to_remove[idx])))
    /\ errors' = errors_after_failure(errors)
    /\ idx' = idx + 1
    /\ pc' = "remove"
    /\ UNCHANGED << source_objects, target_objects, args, diff_entries, to_copy,
                    to_remove, skipped, copied, removed, exit_code >>
    /\ UNCHANGED << source_store, target_store, output >>
    /\ UNCHANGED compareVars
    /\ UNCHANGED << listVars, retryVars, commandVars >>

\* lines 345-372: the results are reported and the exit code returned
Report ==
    /\ pc = "remove"
    /\ ~args.remove \/ idx > Len(to_remove)
    /\ output' = Some(MirrorOutput(copied, removed, skipped, errors, FALSE))
    /\ exit_code' = IF errors > 0 THEN "GeneralError" ELSE "Success"
    /\ pc' = "done"
    /\ UNCHANGED << source_objects, target_objects, args, diff_entries, to_copy,
                    to_remove, skipped, copied, removed, errors, idx, calls >>
    /\ UNCHANGED << source_store, target_store >>
    /\ UNCHANGED compareVars
    /\ UNCHANGED << listVars, retryVars, commandVars >>

Next ==
    \/ Plan
    \/ DryRun
    \/ StartCopy
    \/ GetObject
    \/ GetObjectOk
    \/ GetObjectErr
    \/ PutObjectOk
    \/ PutObjectErr
    \/ EndCopy
    \/ DeleteObject
    \/ DeleteObjectOk
    \/ DeleteObjectErr
    \/ Report

Spec == Init /\ [][Next]_vars

(***************************************************************************)
(* retry_with_backoff (crates/core/src/retry.rs 25-80)                     *)
(***************************************************************************)
\* largest config.max_attempts
MaxAttempts == 3

\* initial_backoff_ms: 0, 1, 2, 2^63, 2^64 - 1; max_backoff_ms: 0, 3, 2^64 - 1
RetryConfigs ==
    [max_attempts : 0 .. MaxAttempts,
     initial_backoff_ms : { u64(0), u64(1), u64(2), << 32768, 0, 0, 0 >>, u64_MAX },
     max_backoff_ms : { u64(0), u64(3), u64_MAX }]

\* SystemTime::now() ... subsec_nanos()
Nanos == { 0, 1, 2, 999999999 }

\* what an invocation of the operation may return
OperationValues == { 42 }
OperationErrors ==
    { Network(<< "R", "e", "q", "u", "e", "s", "t", " ", "T", "i", "m", "e", "o", "u", "t" >>),
      Network(<< "5", "0", "3" >>),
      Network(<< "d", "e", "n", "i", "e", "d" >>),
      NotFound(<< "t", "i", "m", "e", "o", "u", "t" >>),
      General(<< "T", "e", "m", "p", "o", "r", "a", "r", "y" >>),
      Auth(<< "t", "i", "m", "e", "o", "u", "t" >>),
      Io("TimedOut"),
      Io("PermissionDenied") }

\* the closures handed in as is_retryable: is_retryable_error, |_| true, |_| false
IsRetryableClosures == { "default", "always", "never" }
is_retryable_call(closure, e) ==
    CASE closure = "default" -> is_retryable_error(e)
      [] closure = "always" -> TRUE
      [] closure = "never" -> FALSE

Min(a, b) == IF a <= b THEN a ELSE b
Max(a, b) == IF a >= b THEN a ELSE b

\* a panic of the running task
Panic == [tag |-> "Panic", val |-> << >>]

\* rand_jitter, with the clock's nanoseconds as an input
rand_jitter(max, ns) == u64_rem(ns, u64_max(max, u64(1)))

\* calculate_backoff, in milliseconds: the product and the sum wrap around,
\* or panic in a build with overflow checks
calculate_backoff(cfg, n, ns, checks) ==
    LET sh == Min(n - 1, 10)
        base_ms == u64_shl(cfg.initial_backoff_ms, sh)
        capped_ms == u64_min(base_ms, cfg.max_backoff_ms)
        jitter_ms == rand_jitter(capped_ms, ns)
    IN  IF checks /\ u64_shl_overflows(cfg.initial_backoff_ms, sh) THEN Panic
        ELSE IF checks /\ u64_add_overflows(capped_ms, jitter_ms) THEN Panic
        ELSE Ok(u64_add(capped_ms, jitter_ms))

\* line 43: whether the error of attempt number n is returned
gives_up_one_early(cfg, n, retryable) == n + 1 >= cfg.max_attempts \/ ~retryable
gives_up_ignores_is_retryable(cfg, n, retryable) == n >= cfg.max_attempts
gives_up(cfg, n, retryable) == n >= cfg.max_attempts \/ ~retryable

\* events of retry_log
OpEvent == [ev |-> "op", result |-> None, ms |-> u64(0)]
SleepEvent(ms) == [ev |-> "sleep", result |-> None, ms |-> ms]
\* the awaited invocation (the last event) returns
OpReturns(log, r) == [log EXCEPT ![Len(log)].result = Some(r)]
OpResults(log) == SelectSeq(log, LAMBDA ev : ev.ev = "op" /\ ev.result # None)

\* line 44: the error retry_with_backoff returns when it gives up on e
returned_error_is_first(log, e) == OpResults(log)[1].result[1].val
returned_error(log, e) == e

InitRetry ==
    /\ first = EmptyMap
    /\ second = EmptyMap
    /\ diff_only = FALSE
    /\ cmp = "none"
    /\ entries = << >>
    /\ CommandIdle
    /\ MirrorIdle
    /\ ListIdle
    /\ config \in RetryConfigs
    /\ is_retryable \in IsRetryableClosures
    /\ attempt = 0
    /\ retry_pc = "loop"
    /\ retry_log = << >>
    /\ retry_returned = None
    /\ overflow_checks \in BOOLEAN
    /\ nanos = 0
    /\ backoff = None
    /\ error_arg = None
    /\ classified = None

\* lines 37-40: attempt += 1; operation() is called
Invoke ==
    /\ retry_pc = "loop"
    /\ attempt' = attempt + 1
    /\ retry_log' = Append(retry_log, OpEvent)
    /\ retry_pc' = "awaiting"
    /\ UNCHANGED << overflow_checks, nanos, backoff, error_arg, classified >>
    /\ UNCHANGED << config, is_retryable, retry_returned >>
    /\ UNCHANGED << compareVars, mirrorVars, listVars, commandVars >>

\* line 41: the operation returned Ok(result)
OperationOk ==
    /\ retry_pc = "awaiting"
    /\ \E v \in OperationValues :
          /\ retry_log' = OpReturns(retry_log, Ok(v))
          /\ retry_returned' = Some(Ok(v))
    /\ retry_pc' = "returned"
    /\ UNCHANGED << overflow_checks, nanos, backoff, error_arg, classified >>
    /\ UNCHANGED << config, is_retryable, attempt >>
    /\ UNCHANGED << compareVars, mirrorVars, listVars, commandVars >>

\* lines 42-45: the operation returned Err(e) and e is returned
OperationErrReturned ==
    /\ retry_pc = "awaiting"
    /\ \E e \in OperationErrors :
          /\ gives_up(config, attempt, is_retryable_call(is_retryable, e))
          /\ retry_log' = OpReturns(retry_log, Err(e))
          /\ retry_returned' = Some(Err(returned_error(OpReturns(retry_log, Err(e)), e)))
    /\ retry_pc' = "returned"
    /\ UNCHANGED << overflow_checks, nanos, backoff, error_arg, classified >>
    /\ UNCHANGED << config, is_retryable, attempt >>
    /\ UNCHANGED << compareVars, mirrorVars, listVars, commandVars >>

\* lines 42-56: the operation returned Err(e) and the backoff sleep begins
OperationErrRetried ==
    /\ retry_pc = "awaiting"
    /\ \E e \in OperationErrors, ns \in Nanos :
          LET slept == calculate_backoff(config, attempt, ns, overflow_checks)
          IN  /\ ~gives_up(config, attempt, is_retryable_call(is_retryable, e))
              /\ IF slept.tag = "Panic"
                 THEN /\ retry_log' = OpReturns(retry_log, Err(e))
                      /\ retry_pc' = "panicked"
                 ELSE /\ retry_log' = Append(OpReturns(retry_log, Err(e)),
                                             SleepEvent(slept.val))
                      /\ retry_pc' = "sleeping"
    /\ UNCHANGED << overflow_checks, nanos, backoff, error_arg, classified >>
    /\ UNCHANGED << config, is_retryable, attempt, retry_returned >>
    /\ UNCHANGED << compareVars, mirrorVars, listVars, commandVars >>

\* line 56: the sleep is over, the loop goes round
SleepOver ==
    /\ retry_pc = "sleeping"
    /\ retry_pc' = "loop"
    /\ UNCHANGED << overflow_checks, nanos, backoff, error_arg, classified >>
    /\ UNCHANGED << config, is_retryable, attempt, retry_log, retry_returned >>
    /\ UNCHANGED << compareVars, mirrorVars, listVars, commandVars >>

NextRetry ==
    \/ Invoke
    \/ OperationOk
    \/ OperationErrReturned
    \/ OperationErrRetried
    \/ SleepOver

SpecRetry == InitRetry /\ [][NextRetry]_vars

\* the operation's future and the sleep's timer both complete
SpecRetryFair == SpecRetry /\ WF_vars(NextRetry)

(***************************************************************************)
(* calculate_backoff on its own (retry.rs 61-70)                           *)
(***************************************************************************)
\* largest attempt number handed to calculate_backoff
MaxBackoffAttempt == 12

\* 0, 1, 100, 2^53, 2^54, 2^63, 2^64 - 1
BackoffInitials ==
    { u64(0), u64(1), u64(100), << 32, 0, 0, 0 >>, << 64, 0, 0, 0 >>,
      << 32768, 0, 0, 0 >>, u64_MAX }
\* 0, 1, 10000, 2^64 - 1
BackoffMaxima == { u64(0), u64(1), u64(10000), u64_MAX }

InitBackoff ==
    /\ first = EmptyMap
    /\ second = EmptyMap
    /\ diff_only = FALSE
    /\ cmp = "none"
    /\ entries = << >>
    /\ CommandIdle
    /\ MirrorIdle
    /\ ListIdle
    /\ config \in [max_attempts : { MaxBackoffAttempt }, initial_backoff_ms : BackoffInitials,
                    max_backoff_ms : BackoffMaxima]
    /\ is_retryable = "none"
    /\ attempt \in 1 .. MaxBackoffAttempt
    /\ retry_pc = "backoff"
    /\ retry_log = << >>
    /\ retry_returned = None
    /\ overflow_checks \in BOOLEAN
    /\ nanos \in Nanos
    /\ backoff = None
    /\ error_arg = None
    /\ classified = None

\* calculate_backoff(config, attempt) is called
CalculateBackoff ==
    /\ retry_pc = "backoff"
    /\ backoff' = Some(calculate_backoff(config, attempt, nanos, overflow_checks))
    /\ retry_pc' = "backoff_done"
    /\ UNCHANGED << config, is_retryable, attempt, retry_log, retry_returned,
                    overflow_checks, nanos, error_arg, classified >>
    /\ UNCHANGED << compareVars, mirrorVars, listVars, commandVars >>

NextBackoff == CalculateBackoff

SpecBackoff == InitBackoff /\ [][NextBackoff]_vars

(***************************************************************************)
(* is_retryable_error on its own (retry.rs 82-123)                         *)
(***************************************************************************)
msg_connection_reset == << "C", "o", "n", "n", "e", "c", "t", "i", "o", "n", " ", "r", "e", "s", "e", "t", " ", "b", "y", " ", "p", "e", "e", "r" >>
msg_connection_refused == << "c", "o", "n", "n", "e", "c", "t", "i", "o", "n", " ", "r", "e", "f", "u", "s", "e", "d" >>
msg_timeout == << "R", "e", "q", "u", "e", "s", "t", " ", "T", "i", "m", "e", "o", "u", "t" >>
msg_429 == << "H", "T", "T", "P", " ", "4", "2", "9" >>
msg_too_many_requests == << "T", "o", "o", " ", "M", "a", "n", "y", " ", "R", "e", "q", "u", "e", "s", "t", "s" >>
msg_503 == << "s", "t", "a", "t", "u", "s", " ", "5", "0", "3" >>
msg_service_unavailable == << "S", "e", "r", "v", "i", "c", "e", " ", "U", "n", "a", "v", "a", "i", "l", "a", "b", "l", "e" >>
msg_temporary == << "T", "e", "m", "p", "o", "r", "a", "r", "y", " ", "f", "a", "i", "l", "u", "r", "e" >>
msg_access_denied == << "a", "c", "c", "e", "s", "s", " ", "d", "e", "n", "i", "e", "d" >>
msg_empty == << >>
ErrorMessages ==
    { msg_connection_reset, msg_connection_refused, msg_timeout, msg_429, msg_too_many_requests,
      msg_503, msg_service_unavailable, msg_temporary, msg_access_denied, msg_empty }
\* the variants of Error that carry a message; "Other" is any variant the
\* match leaves to its last arm
MessageKinds ==
    { "Network", "General", "Auth", "NotFound", "AliasNotFound", "Conflict",
      "InvalidPath", "Config", "UnsupportedFeature", "Other" }
IoErrorKinds ==
    { "ConnectionReset", "ConnectionRefused", "TimedOut", "Interrupted",
      "PermissionDenied", "NotFound" }
ClassifiedErrors ==
    { [kind |-> k, msg |-> m, io_kind |-> "none"] : k \in MessageKinds, m \in ErrorMessages }
      \cup { Io(k) : k \in IoErrorKinds }

InitClassify ==
    /\ first = EmptyMap
    /\ second = EmptyMap
    /\ diff_only = FALSE
    /\ cmp = "none"
    /\ entries = << >>
    /\ CommandIdle
    /\ MirrorIdle
    /\ ListIdle
    /\ config = [max_attempts |-> 0, initial_backoff_ms |-> u64(0), max_backoff_ms |-> u64(0)]
    /\ is_retryable = "default"
    /\ attempt = 0
    /\ retry_pc = "classify"
    /\ retry_log = << >>
    /\ retry_returned = None
    /\ overflow_checks = FALSE
    /\ nanos = 0
    /\ backoff = None
    /\ error_arg \in { Some(e) : e \in ClassifiedErrors }
    /\ classified = None

\* is_retryable_error(&error) is called
IsRetryableError ==
    /\ retry_pc = "classify"
    /\ classified' = Some(is_retryable_error(error_arg[1]))
    /\ retry_pc' = "classified"
    /\ UNCHANGED << config, is_retryable, attempt, retry_log, retry_returned,
                    overflow_checks, nanos, backoff, error_arg >>
    /\ UNCHANGED << compareVars, mirrorVars, listVars, commandVars >>

NextClassify == IsRetryableError

SpecClassify == InitClassify /\ [][NextClassify]_vars

(***************************************************************************)
(* list_objects_map (diff.rs 238-300, mirror.rs 375-424)                   *)
(***************************************************************************)
\* list requests one run may issue
MaxRequests == 4
\* items the pages of one store hold between them
MaxListed == 3
\* pages of one store
MaxPages == 2

\* ObjectInfo, the fields list_objects_map reads
ObjectInfo(key, is_dir, size_bytes, last_modified, etag) ==
    [key |-> key, is_dir |-> is_dir, size_bytes |-> size_bytes,
     last_modified |-> last_modified, etag |-> etag]

\* jiff::Timestamp values (seconds since the epoch) and their Display form
Timestamps == { 0, 1 }
timestamp_to_string(t) ==
    CASE t = 0 -> "1970-01-01T00:00:00Z"
      [] t = 1 -> "1970-01-01T00:00:01Z"

BasePrefixes == { << >>, << "p" >>, << "p", "/" >> }
ListItems ==
    { ObjectInfo(<< "p", "/", "a" >>, FALSE, Some(100), Some(0), Some("x")),
      ObjectInfo(<< "p", "/", "a" >>, FALSE, Some(200), None, Some("y")),
      ObjectInfo(<< "p", "/", "b" >>, FALSE, Some(100), None, None),
      ObjectInfo(<< "p", "/", "/", "a" >>, FALSE, Some(100), Some(1), Some("x")),
      ObjectInfo(<< "p" >>, FALSE, Some(200), None, Some("y")),
      ObjectInfo(<< "p", "/", "d", "/" >>, TRUE, None, None, None) }

\* Option::unwrap_or, Option::map(|t| t.to_string())
unwrap_or(opt, default) == IF opt = None THEN default ELSE opt[1]
map_to_string(opt) == IF opt = None THEN None ELSE Some(timestamp_to_string(opt[1]))

\* str::strip_prefix
strip_prefix(s, prefix) ==
    IF Len(prefix) <= Len(s) /\ SubSeq(s, 1, Len(prefix)) = prefix
    THEN Some(SubSeq(s, Len(prefix) + 1, Len(s)))
    ELSE None

\* str::trim_start_matches
RECURSIVE trim_start_matches(_, _)
trim_start_matches(s, c) ==
    IF s # << >> /\ Head(s) = c THEN trim_start_matches(Tail(s), c) ELSE s

\* the segments of s between occurrences of c
RECURSIVE split(_, _, _)
split(s, c, seg) ==
    IF s = << >> THEN << seg >>
    ELSE IF Head(s) = c THEN << seg >> \o split(Tail(s), c, << >>)
    ELSE split(Tail(s), c, Append(seg, Head(s)))

\* Path::components: empty segments vanish, and so does "." except in front of
\* a relative path
components(path) ==
    LET segs == split(path, "/", << >>)
        keep(i) == /\ segs[i] # << >>
                   /\ segs[i] = << "." >> => i = 1
        RECURSIVE pick(_)
        pick(i) == IF i > Len(segs) THEN << >>
                   ELSE IF keep(i) THEN << segs[i] >> \o pick(i + 1)
                   ELSE pick(i + 1)
    IN  pick(1)

\* Path::file_name
file_name(path) ==
    LET cs == components(path)
    IN  IF cs = << >> THEN None
        ELSE IF cs[Len(cs)] \in { << "." >>, << ".", "." >> } THEN None
        ELSE Some(cs[Len(cs)])

\* diff.rs 263-264, mirror.rs 399-400
relative_key(key, prefix) ==
    trim_start_matches(unwrap_or(strip_prefix(key, prefix), key), "/")

item_file_info(item) ==
    [size |-> item.size_bytes, modified |-> map_to_string(item.last_modified),
     etag |-> item.etag]

insert_keeps_the_first(map, key, value) ==
    [k \in DOMAIN map \cup {key} |-> IF k \in DOMAIN map THEN map[k] ELSE value]

\* HashMap::insert
insert(map, key, value) ==
    [k \in DOMAIN map \cup {key} |-> IF k = key THEN value ELSE map[k]]

diff_record_item_keeps_directories(map, item, prefix) ==
    LET rel == relative_key(item.key, prefix)
    IN  IF rel = << >>
        THEN insert(map, unwrap_or(file_name(item.key), item.key), item_file_info(item))
        ELSE insert(map, rel, item_file_info(item))

\* the body of `for item in result.items`, diff.rs 257-290
diff_record_item(map, item, prefix) ==
    IF item.is_dir THEN map
    ELSE LET rel == relative_key(item.key, prefix)
         IN  IF rel = << >>
             THEN insert(map, unwrap_or(file_name(item.key), item.key), item_file_info(item))
             ELSE insert(map, rel, item_file_info(item))

\* the body of `for item in result.items`, mirror.rs 393-414
mirror_record_item(map, item, prefix) ==
    IF item.is_dir THEN map
    ELSE LET rel == relative_key(item.key, prefix)
         IN  IF rel = << >> THEN map
             ELSE insert(map, rel, item_file_info(item))

RECURSIVE record_items(_, _, _, _)
record_items(map, items, prefix, p) ==
    IF items = << >> THEN map
    ELSE record_items(IF p = "diff" THEN diff_record_item(map, Head(items), prefix)
                                     ELSE mirror_record_item(map, Head(items), prefix),
                      Tail(items), prefix, p)

\* struct ListResult
ListResult(items, truncated, token) ==
    [items |-> items, truncated |-> truncated, continuation_token |-> token]

\* the page the store answers a request with: the first one when the request
\* carries no continuation token
page_for(ps, token) == IF token = None THEN ps[1] ELSE ps[token[1]]

\* what the SDK's error formats as, format_sdk_error
ListSdkErrors ==
    { << "R", "e", "q", "u", "e", "s", "t", " ", "t", "i", "m", "e", "o", "u", "t" >>,
      << "N", "o", "S", "u", "c", "h", "B", "u", "c", "k", "e", "t" >> }
lit_NoSuchBucket == << "N", "o", "S", "u", "c", "h", "B", "u", "c", "k", "e", "t" >>
\* the literal of format!("Bucket not found: {}", path.bucket)
lit_Bucket_not_found == << "B", "u", "c", "k", "e", "t", " ", "n", "o", "t", " ",
                           "f", "o", "u", "n", "d", ":", " " >>
\* the map_err closure of list_objects called with `path`, client.rs 148-155
list_objects_error(err_str, path) ==
    IF contains(err_str, lit_NotFound) \/ contains(err_str, lit_NoSuchBucket)
    THEN NotFound(lit_Bucket_not_found \o path.bucket)
    ELSE Network(err_str)

\* sequences of at most n elements of S
RECURSIVE SeqsUpTo(_, _)
SeqsUpTo(S, n) ==
    IF n = 0 THEN { << >> }
    ELSE LET shorter == SeqsUpTo(S, n - 1)
         IN  shorter \cup { Append(q, x) : q \in { r \in shorter : Len(r) = n - 1 }, x \in S }

\* a chain of n pages over the items its, cut after the positions cut[i];
\* every page but the last is truncated, with the token of the next page
\* unless tokenless[i]
Chain(its, n, cut, tokenless) ==
    [i \in 1 .. n |->
        ListResult(SubSeq(its, (IF i = 1 THEN 0 ELSE cut[i - 1]) + 1,
                          IF i = n THEN Len(its) ELSE cut[i]),
                   i < n,
                   IF i < n /\ ~tokenless[i] THEN Some(i + 1) ELSE None)]

InitList ==
    /\ first = EmptyMap
    /\ second = EmptyMap
    /\ diff_only = FALSE
    /\ cmp = "none"
    /\ entries = << >>
    /\ CommandIdle
    /\ MirrorIdle
    /\ RetryIdle
    /\ pipeline \in { "diff", "mirror" }
    /\ base_prefix \in BasePrefixes
    /\ \E its \in SeqsUpTo(ListItems, MaxListed) : \E n \in 1 .. MaxPages :
          \E cut \in [1 .. n - 1 -> 0 .. Len(its)], tokenless \in [1 .. n - 1 -> BOOLEAN] :
             /\ \A i \in 1 .. n - 2 : cut[i] <= cut[i + 1]
             /\ pages = Chain(its, n, cut, tokenless)
    /\ continuation_token = None
    /\ objects = EmptyMap
    /\ list_pc = "loop"
    /\ list_requests = << >>
    /\ list_returned = None

\* client.list_objects(path, options) is issued with the current token
ListRequest ==
    /\ list_pc = "loop"
    /\ Len(list_requests) < MaxRequests
    /\ list_requests' = Append(list_requests, continuation_token)
    /\ list_pc' = "awaiting"
    /\ UNCHANGED << pipeline, base_prefix, pages, continuation_token, objects,
                    list_returned >>
    /\ UNCHANGED << compareVars, mirrorVars, retryVars, commandVars >>

\* the request returned Ok(result): the items are recorded, and the loop goes
\* on with result.continuation_token or breaks and returns Ok(objects)
ListPageOk ==
    /\ list_pc = "awaiting"
    /\ LET result == page_for(pages, continuation_token)
           recorded == record_items(objects, result.items, base_prefix, pipeline)
       IN  /\ objects' = recorded
           /\ IF result.truncated
              THEN /\ continuation_token' = result.continuation_token
                   /\ list_pc' = "loop"
                   /\ UNCHANGED list_returned
              ELSE /\ list_pc' = "returned"
                   /\ list_returned' = Some(Ok(recorded))
                   /\ UNCHANGED continuation_token
    /\ UNCHANGED << pipeline, base_prefix, pages, list_requests >>
    /\ UNCHANGED << compareVars, mirrorVars, retryVars, commandVars >>

\* the RemotePath list_objects_map is called with: the first path of a
\* command, or the second once the first is listed
list_path ==
    RemotePath(path_alias[IF pc = "list_second" THEN "second" ELSE "first"],
               path_bucket, base_prefix)

\* what list_objects_map does when a page request returned Err(e)
list_page_failed(e) == [pc |-> "returned", returned |-> Some(Err(e))]

\* the request returned Err(e): `?` returns it
ListPageErr ==
    /\ list_pc = "awaiting"
    /\ \E err_str \in ListSdkErrors :
          LET after == list_page_failed(list_objects_error(err_str, list_path))
          IN  /\ list_pc' = after.pc
              /\ list_returned' = after.returned
    /\ UNCHANGED << pipeline, base_prefix, pages, continuation_token, objects,
                    list_requests >>
    /\ UNCHANGED << compareVars, mirrorVars, retryVars, commandVars >>

NextList ==
    \/ ListRequest
    \/ ListPageOk
    \/ ListPageErr

SpecList == InitList /\ [][NextList]_vars

(***************************************************************************)
(* The commands end to end: diff execute (diff.rs 81-236) and mirror       *)
(* execute (mirror.rs 66-373), from the list requests to the exit code     *)
(***************************************************************************)
\* items the two stores of a command hold between them
MaxCommandItems == 3

CommandPrefixes == { << "p" >>, << "p", "/" >> }
CommandItems ==
    { ObjectInfo(<< "p", "/", "a" >>, FALSE, Some(100), Some(0), Some("x")),
      ObjectInfo(<< "p", "/", "a" >>, FALSE, Some(200), None, Some("y")),
      ObjectInfo(<< "p", "/", "/", "b" >>, FALSE, Some(100), None, None),
      ObjectInfo(<< "p", "/", "d", "/" >>, TRUE, None, None, None) }

\* a chain of one page, or of two pages cut after `cut` items
Paged(its, cut) ==
    IF cut = Len(its)
    THEN Chain(its, 1, << >>, << >>)
    ELSE Chain(its, 2, << cut >>, << FALSE >>)

\* the objects a store holds, by absolute key: what its pages list (a key
\* listed twice is held with the later fingerprint)
RECURSIVE held_items(_, _)
held_items(map, items) ==
    IF items = << >> THEN map
    ELSE held_items(IF Head(items).is_dir THEN map
                    ELSE put_object(map, Head(items).key, item_file_info(Head(items))),
                    Tail(items))
RECURSIVE held_pages(_, _, _)
held_pages(map, ps, i) ==
    IF i > Len(ps) THEN map ELSE held_pages(held_items(map, ps[i].items), ps, i + 1)
StoreContent(ps) == held_pages(EmptyMap, ps, 1)

count_status(es, st) == Cardinality({ i \in DOMAIN es : es[i].status = st })
\* diff.rs 168-184
DiffSummary(es) ==
    [same |-> count_status(es, "Same"), different |-> count_status(es, "Different"),
     only_first |-> count_status(es, "OnlyFirst"),
     only_second |-> count_status(es, "OnlySecond"), total |-> Len(es)]
\* diff.rs 187-188
has_differences_ignores_only_second(sm) == sm.different > 0 \/ sm.only_first > 0
has_differences(sm) == sm.different > 0 \/ sm.only_first > 0 \/ sm.only_second > 0

InitCommand ==
    /\ first = EmptyMap
    /\ second = EmptyMap
    /\ cmp = "none"
    /\ entries = << >>
    /\ RetryIdle
    /\ command \in { "diff", "mirror" }
    /\ IF command = "diff"
       THEN /\ diff_only \in BOOLEAN
            /\ args = [remove |-> FALSE, overwrite |-> FALSE, dry_run |-> FALSE]
       ELSE /\ diff_only = FALSE
            /\ args \in [remove : BOOLEAN, overwrite : BOOLEAN, dry_run : BOOLEAN]
    /\ paths \in [first : CommandPrefixes, second : CommandPrefixes]
    /\ \E its \in SeqsUpTo(CommandItems, MaxCommandItems) : \E k \in 0 .. Len(its) :
          \E c1 \in { 1, k } \cap (0 .. k) :
          \E c2 \in { 1, Len(its) - k } \cap (0 .. Len(its) - k) :
             listed = [first |-> Paged(SubSeq(its, 1, k), c1),
                       second |-> Paged(SubSeq(its, k + 1, Len(its)), c2)]
    /\ summary = None
    \* list_objects_map of the first path is entered
    /\ pipeline = command
    /\ base_prefix = paths.first
    /\ pages = listed.first
    /\ continuation_token = None
    /\ objects = EmptyMap
    /\ list_pc = "loop"
    /\ list_requests = << >>
    /\ list_returned = None
    /\ source_objects = EmptyMap
    /\ target_objects = EmptyMap
    /\ source_store = StoreContent(listed.first)
    /\ target_store = StoreContent(listed.second)
    /\ diff_entries = << >>
    /\ to_copy = << >>
    /\ to_remove = << >>
    /\ skipped = 0
    /\ copied = 0
    /\ removed = 0
    /\ errors = 0
    /\ pc = "list_first"
    /\ idx = 0
    /\ calls = << >>
    /\ exit_code = "none"
    /\ output = None

\* where a command goes when a listing returned Err(e)
listing_failed_goes_on(p, position) ==
    IF position = "list_first" THEN [pc |-> "list_second", exit_code |-> "none"]
    ELSE [pc |-> IF p = "diff" THEN "compare" ELSE "start", exit_code |-> "none"]
listing_failed(p, position) == [pc |-> "done", exit_code |-> "NetworkError"]

\* diff.rs 255, mirror.rs 391: a list request of the running listing is
\* issued and awaited
ListingRequest ==
    /\ pc \in { "list_first", "list_second" }
    /\ ListRequest

\* diff.rs 255-296, mirror.rs 391-420: the awaited request returned a
\* truncated page: its items are recorded and the loop goes on
ListingPage ==
    /\ pc \in { "list_first", "list_second" }
    /\ list_pc = "awaiting"
    /\ page_for(pages, continuation_token).truncated
    /\ ListPageOk

\* diff.rs 148-154, mirror.rs 132-138: the awaited request of the first
\* listing returned the last page: list_objects_map returns Ok(objects), and
\* list_objects_map of the second path is entered
ListFirstOk ==
    /\ pc = "list_first"
    /\ list_pc = "awaiting"
    /\ LET result == page_for(pages, continuation_token)
           recorded == record_items(objects, result.items, base_prefix, pipeline)
       IN  /\ ~result.truncated
           /\ list_returned' = Some(Ok(recorded))
           /\ IF command = "diff"
              THEN /\ first' = recorded
                   /\ UNCHANGED source_objects
              ELSE /\ source_objects' = recorded
                   /\ UNCHANGED first
    /\ pc' = "list_second"
    /\ base_prefix' = paths.second
    /\ pages' = listed.second
    /\ continuation_token' = None
    /\ objects' = EmptyMap
    /\ list_pc' = "loop"
    /\ list_requests' = << >>
    /\ UNCHANGED << second, diff_only, cmp, entries, target_objects, args, diff_entries,
                    to_copy, to_remove, skipped, copied, removed, errors, idx, calls,
                    exit_code, source_store, target_store, output >>
    /\ UNCHANGED << pipeline, retryVars, commandVars >>

\* diff.rs 150-153, mirror.rs 134-137: the awaited request of the first
\* listing returned Err(e): list_objects_map returns it and the command ends
ListFirstErr ==
    /\ pc = "list_first"
    /\ list_pc = "awaiting"
    /\ \E err_str \in ListSdkErrors :
          LET after == list_page_failed(list_objects_error(err_str, list_path))
          IN  /\ list_pc' = after.pc
              /\ list_returned' = after.returned
    /\ pc' = listing_failed(command, pc).pc
    /\ exit_code' = listing_failed(command, pc).exit_code
    /\ UNCHANGED << source_objects, target_objects, args, diff_entries, to_copy, to_remove,
                    skipped, copied, removed, errors, idx, calls, source_store,
                    target_store, output >>
    /\ UNCHANGED << pipeline, base_prefix, pages, continuation_token, objects,
                    list_requests >>
    /\ UNCHANGED << compareVars, retryVars, commandVars >>

\* diff.rs 156-163, mirror.rs 140-146: the awaited request of the second
\* listing returned the last page: list_objects_map returns Ok(objects)
ListSecondOk ==
    /\ pc = "list_second"
    /\ list_pc = "awaiting"
    /\ LET result == page_for(pages, continuation_token)
           recorded == record_items(objects, result.items, base_prefix, pipeline)
       IN  /\ ~result.truncated
           /\ objects' = recorded
           /\ list_returned' = Some(Ok(recorded))
           /\ IF command = "diff"
              THEN /\ second' = recorded
                   /\ UNCHANGED target_objects
              ELSE /\ target_objects' = recorded
                   /\ UNCHANGED second
    /\ list_pc' = "returned"
    /\ pc' = IF command = "diff" THEN "compare" ELSE "start"
    /\ UNCHANGED << first, diff_only, cmp, entries, source_objects, args, diff_entries,
                    to_copy, to_remove, skipped, copied, removed, errors, idx, calls,
                    exit_code, source_store, target_store, output >>
    /\ UNCHANGED << pipeline, base_prefix, pages, continuation_token, list_requests >>
    /\ UNCHANGED << retryVars, commandVars >>

\* diff.rs 158-162, mirror.rs 142-145: the awaited request of the second
\* listing returned Err(e)
ListSecondErr ==
    /\ pc = "list_second"
    /\ list_pc = "awaiting"
    /\ \E err_str \in ListSdkErrors :
          LET after == list_page_failed(list_objects_error(err_str, list_path))
          IN  /\ list_pc' = after.pc
              /\ list_returned' = after.returned
    /\ pc' = listing_failed(command, pc).pc
    /\ exit_code' = listing_failed(command, pc).exit_code
    /\ UNCHANGED << source_objects, target_objects, args, diff_entries, to_copy, to_remove,
                    skipped, copied, removed, errors, idx, calls, source_store,
                    target_store, output >>
    /\ UNCHANGED << pipeline, base_prefix, pages, continuation_token, objects,
                    list_requests >>
    /\ UNCHANGED << compareVars, retryVars, commandVars >>

\* diff.rs 165-235: compare, summarize, print, return the exit code
DiffExecute ==
    /\ pc = "compare"
    /\ \E o1 \in Orders(DOMAIN first), o2 \in Orders(DOMAIN second) :
          LET es == compare_objects(first, second, diff_only, o1, o2)
          IN  /\ entries' = es
              /\ summary' = Some(DiffSummary(es))
              /\ exit_code' = IF has_differences(DiffSummary(es))
                              THEN "GeneralError" ELSE "Success"
    /\ cmp' = "diff"
    /\ pc' = "done"
    /\ UNCHANGED << first, second, diff_only >>
    /\ UNCHANGED << source_objects, target_objects, args, diff_entries, to_copy, to_remove,
                    skipped, copied, removed, errors, idx, calls, source_store,
                    target_store, output >>
    /\ UNCHANGED << command, paths, listed >>
    /\ UNCHANGED << listVars, retryVars >>

NextCommand ==
    \/ ListingRequest
    \/ ListingPage
    \/ ListFirstOk
    \/ ListFirstErr
    \/ ListSecondOk
    \/ ListSecondErr
    \/ DiffExecute
    \/ Plan
    \/ DryRun
    \/ StartCopy
    \/ GetObject
    \/ GetObjectOk
    \/ GetObjectErr
    \/ PutObjectOk
    \/ PutObjectErr
    \/ EndCopy
    \/ DeleteObject
    \/ DeleteObjectOk
    \/ DeleteObjectErr
    \/ Report

SpecCommand == InitCommand /\ [][NextCommand]_vars

(***************************************************************************)
(* Properties                                                              *)
(***************************************************************************)
EntryKeys(es) == { es[i].key : i \in DOMAIN es }
KeysWithStatus(es, st) == { es[i].key : i \in { j \in DOMAIN es : es[j].status = st } }
NoKeyTwice(es) == \A i, j \in DOMAIN es : es[i].key = es[j].key => i = j
CountStatus(es, st) == Cardinality({ i \in DOMAIN es : es[i].status = st })
CountCalls(ops, result) ==
    Cardinality({ i \in DOMAIN calls : calls[i].op \in ops /\ calls[i].result = result })

\* `entries` is the full comparison of first and second (nothing hidden)
FullComparison == cmp = "mirror" \/ (cmp = "diff" /\ ~diff_only)

\* C1: compare(A, B) returns exactly one entry for each key of
\* keys(A) \cup keys(B), no entry for another key and no key twice.
C1_Partition ==
    FullComparison =>
        /\ EntryKeys(entries) = DOMAIN first \cup DOMAIN second
        /\ NoKeyTwice(entries)

C1_Witness ==
    /\ cmp = "diff" /\ ~diff_only
    /\ Len(entries) = 2
    /\ DOMAIN first \cap DOMAIN second # {}
    /\ DOMAIN second \ DOMAIN first # {}

\* C2: a key is OnlyFirst iff it is in A and not in B, OnlySecond iff it is in
\* B and not in A, Same or Different iff it is in both; two empty Listings
\* give no entries.
C2_StatusByMembership ==
    FullComparison =>
        /\ KeysWithStatus(entries, "OnlyFirst") = DOMAIN first \ DOMAIN second
        /\ KeysWithStatus(entries, "OnlySecond") = DOMAIN second \ DOMAIN first
        /\ KeysWithStatus(entries, "Same") \cup KeysWithStatus(entries, "Different")
              = DOMAIN first \cap DOMAIN second
        /\ (DOMAIN first = {} /\ DOMAIN second = {}) => entries = << >>

C2_Witness ==
    /\ cmp = "mirror"
    /\ KeysWithStatus(entries, "OnlyFirst") # {}
    /\ KeysWithStatus(entries, "OnlySecond") # {}

\* the equality rule as the specification states it
SameByRule(a, b) == a.size = b.size /\ (a.etag = b.etag \/ a.etag = None)

\* C3: a key present in both Listings is Same iff the sizes are equal and (the
\* etags are equal or the first's etag is None), Different otherwise, whatever
\* the two modification times are.
C3_EqualityRule ==
    FullComparison =>
        \A k \in DOMAIN first \cap DOMAIN second :
            \E i \in DOMAIN entries :
                /\ entries[i].key = k
                /\ entries[i].status =
                      IF SameByRule(first[k], second[k]) THEN "Same" ELSE "Different"

C3_Witness ==
    /\ cmp = "mirror"
    /\ \E i \in DOMAIN entries :
          LET k == entries[i].key
          IN  /\ k \in DOMAIN first \cap DOMAIN second
              /\ first[k].etag = None
              /\ second[k].etag = Some("x")
              /\ first[k].size = second[k].size
              /\ first[k].modified # second[k].modified
              /\ entries[i].status = "Same"

SomeOrder(S) == CHOOSE o \in Orders(S) : TRUE
StatusOf(es, k) == es[CHOOSE i \in DOMAIN es : es[i].key = k].status
Swapped ==
    IF cmp = "diff"
    THEN compare_objects(second, first, diff_only,
                         SomeOrder(DOMAIN second), SomeOrder(DOMAIN first))
    ELSE compare_objects_internal(second, first,
                                  SomeOrder(DOMAIN second), SomeOrder(DOMAIN first))

\* C4: compare(A,B) gives OnlyFirst for k iff compare(B,A) gives OnlySecond for
\* k, and vice versa, and for a key present in both Listings the Same/Different
\* verdict of compare(A,B) is that of compare(B,A).
C4_Symmetry ==
    FullComparison =>
        /\ KeysWithStatus(entries, "OnlyFirst") = KeysWithStatus(Swapped, "OnlySecond")
        /\ KeysWithStatus(entries, "OnlySecond") = KeysWithStatus(Swapped, "OnlyFirst")
        /\ \A k \in DOMAIN first \cap DOMAIN second :
              StatusOf(entries, k) = StatusOf(Swapped, k)

\* C5: the entries compare returns are in strictly ascending byte-wise order of
\* key, in diff (with or without diff_only) and in mirror.
C5_Sorted ==
    cmp # "none" =>
        \A i \in 1..(Len(entries) - 1) :
            cmp_str(entries[i].key, entries[i + 1].key) = "Less"

C5_Witness ==
    /\ cmp = "diff" /\ diff_only
    /\ [i \in DOMAIN entries |-> entries[i].key]
          = << << "a" >>, << "a", "/", "b" >>, << "b" >> >>

CopyKeys == { to_copy[i][1] : i \in DOMAIN to_copy }
RemoveKeys == { to_remove[i] : i \in DOMAIN to_remove }

\* C6: to_copy is the OnlyFirst keys plus, when overwrite is set, the Different
\* keys; to_remove is the OnlySecond keys when remove is set and empty
\* otherwise; a Same key is in neither.
C6_PlanSets ==
    pc # "start" =>
        /\ CopyKeys = KeysWithStatus(diff_entries, "OnlyFirst")
                        \cup (IF args.overwrite
                              THEN KeysWithStatus(diff_entries, "Different") ELSE {})
        /\ RemoveKeys = IF args.remove
                        THEN KeysWithStatus(diff_entries, "OnlySecond") ELSE {}
        /\ KeysWithStatus(diff_entries, "Same") \cap (CopyKeys \cup RemoveKeys) = {}

C6_Witness ==
    /\ pc = "planned"
    /\ args.overwrite /\ args.remove
    /\ KeysWithStatus(diff_entries, "Different") # {}
    /\ KeysWithStatus(diff_entries, "OnlySecond") # {}
    /\ Len(to_copy) = 1 /\ Len(to_remove) = 1

\* C7: skipped is the number of Same entries, plus the Different entries when
\* overwrite is not set, plus the OnlySecond entries when remove is not set.
C7_SkippedCount ==
    pc # "start" =>
        skipped = CountStatus(diff_entries, "Same")
                    + (IF args.overwrite THEN 0
                       ELSE CountStatus(diff_entries, "Different"))
                    + (IF args.remove THEN 0
                       ELSE CountStatus(diff_entries, "OnlySecond"))

Finished == pc = "done" /\ ~args.dry_run

\* C8: after a mirror execution that ran to the end,
\* copied + removed + skipped + errors
\*   = len(to_copy) + len(to_remove) + the skipped count of the plan.
C8_Accounting ==
    Finished =>
        copied + removed + skipped + errors
          = Len(to_copy) + Len(to_remove)
              + mirror_plan(diff_entries, source_objects, args).skipped

C8_Witness ==
    /\ Finished
    /\ copied = 1 /\ removed = 1 /\ errors = 1

\* C9: no delete is issued before every copy of the copy phase (its get, and
\* its put when the get succeeded) has resolved.
C9_CopiesBeforeDeletes ==
    \A d \in DOMAIN calls :
        calls[d].op = "delete" =>
            \A j \in DOMAIN to_copy :
                \E g \in 1..(d - 1) :
                    /\ calls[g].op = "get"
                    /\ calls[g].key = to_copy[j][1]
                    /\ calls[g].result # "pending"
                    /\ calls[g].result = "ok" =>
                          /\ calls[g + 1].op = "put"
                          /\ calls[g + 1].key = to_copy[j][1]
                          /\ calls[g + 1].result # "pending"
                          /\ g + 1 < d

C9_Witness ==
    \E d \in DOMAIN calls :
        /\ calls[d].op = "delete"
        /\ Len(to_copy) = 2
        /\ \E p \in 1..(d - 1) : calls[p].op = "put" /\ calls[p].result = "err"

\* C10: a failing get, put or delete never aborts the batch: every key of
\* to_copy has its get attempted and every key of to_remove its delete, and a
\* failure is recorded in errors only.
C10_NoAbort ==
    Finished =>
        /\ \A j \in DOMAIN to_copy :
              \E c \in DOMAIN calls : calls[c].op = "get" /\ calls[c].key = to_copy[j][1]
        /\ \A j \in DOMAIN to_remove :
              \E c \in DOMAIN calls : calls[c].op = "delete" /\ calls[c].key = to_remove[j]
        /\ errors = CountCalls({"get", "put", "delete"}, "err")
        /\ copied = CountCalls({"put"}, "ok")
        /\ removed = CountCalls({"delete"}, "ok")

C10_Witness ==
    /\ Finished
    /\ Len(calls) = 4
    /\ calls[1].op = "get" /\ calls[1].result = "err"
    /\ calls[2].op = "get"
    /\ calls[3].op = "put" /\ calls[3].result = "err"
    /\ calls[4].op = "delete"

CallKeys(op) == { calls[i].key : i \in { j \in DOMAIN calls : calls[j].op = op } }

\* C11: without --remove no delete is ever issued; with it, a delete is issued
\* only on the target, only for an OnlySecond key, never for a key of the
\* source Listing.
C11_DeletesOnlyExtraneous ==
    /\ ~args.remove => CallKeys("delete") = {}
    /\ CallKeys("delete") \subseteq KeysWithStatus(diff_entries, "OnlySecond")
    /\ CallKeys("delete") \cap DOMAIN source_objects = {}
    /\ \A i \in DOMAIN calls : calls[i].op = "delete" => calls[i].store = "target"

C11_Witness ==
    /\ Finished
    /\ args.remove
    /\ CallKeys("delete") # {}
    /\ DOMAIN source_objects # {}

\* C12: without --overwrite no put is issued for a key of the target Listing;
\* a put is issued only for an OnlyFirst key, or a Different key with
\* --overwrite, never for a Same key.
C12_PutsOnlyPlanned ==
    /\ ~args.overwrite => CallKeys("put") \cap DOMAIN target_objects = {}
    /\ CallKeys("put") \subseteq
          KeysWithStatus(diff_entries, "OnlyFirst")
            \cup (IF args.overwrite THEN KeysWithStatus(diff_entries, "Different") ELSE {})
    /\ CallKeys("put") \cap KeysWithStatus(diff_entries, "Same") = {}

C12_Witness ==
    /\ Finished
    /\ ~args.overwrite
    /\ KeysWithStatus(diff_entries, "Different") # {}
    /\ CallKeys("put") # {}

\* C13: in a dry run no get, put or delete is issued and both stores are left
\* as they were listed.
C13_DryRunTouchesNothing ==
    args.dry_run =>
        /\ calls = << >>
        /\ source_store = source_objects
        /\ target_store = target_objects

C13_Witness ==
    /\ pc = "done"
    /\ args.dry_run
    /\ to_copy # << >>
    /\ to_remove # << >>
    /\ output # None

\* the plan a dry run over the same Listings and flags reports
DryRunPlan ==
    mirror_plan(compare_objects_internal(source_objects, target_objects,
                                         SomeOrder(DOMAIN source_objects),
                                         SomeOrder(DOMAIN target_objects)),
                source_objects, [args EXCEPT !.dry_run = TRUE])
CallKeySeq(op) ==
    LET cs == SelectSeq(calls, LAMBDA c : c.op = op)
    IN  [i \in DOMAIN cs |-> cs[i].key]
PlanCopyKeys(plan) == [i \in DOMAIN plan.to_copy |-> plan.to_copy[i][1]]

\* C14: the dry run reports the plan (to copy, to delete, skipped); a real run
\* over the same Listings and flags attempts exactly the keys of that plan, and
\* when every call succeeds its copied / removed / skipped counts are the dry
\* run's numbers.
C14_DryRunIsThePlan ==
    /\ (pc = "done" /\ args.dry_run) =>
          output = Some(MirrorOutput(Len(DryRunPlan.to_copy), Len(DryRunPlan.to_remove),
                                     DryRunPlan.skipped, 0, TRUE))
    /\ Finished =>
          /\ CallKeySeq("get") = PlanCopyKeys(DryRunPlan)
          /\ CallKeySeq("delete") = DryRunPlan.to_remove
          /\ CallKeys("put") \subseteq CallKeys("get")
          /\ CountCalls({"get", "put", "delete"}, "err") = 0 =>
                output = Some(MirrorOutput(Len(DryRunPlan.to_copy),
                                           Len(DryRunPlan.to_remove),
                                           DryRunPlan.skipped, 0, FALSE))

C14_Witness ==
    /\ Finished
    /\ CountCalls({"get", "put", "delete"}, "err") = 0
    /\ output = Some(MirrorOutput(1, 1, 0, 0, FALSE))

\* C15: each get, put and delete of a mirror run is retried: a call that failed
\* with a retryable error is attempted again, so the run does not count it
\* under errors on its first transient failure.
C15_CallsRetried ==
    \A i \in DOMAIN calls :
        (calls[i].result = "err" /\ is_retryable_error(calls[i].error[1])) =>
            (i < Len(calls) =>
                /\ calls[i + 1].op = calls[i].op
                /\ calls[i + 1].key = calls[i].key)

\* C16: a list page request that fails with a retryable error does not fail
\* the listing: list_objects_map returns an error only if that error is not
\* retryable.
C16_ListingSurvivesTransient ==
    (list_returned # None /\ list_returned[1].tag = "Err") =>
        ~is_retryable_error(list_returned[1].val)

OpEvents == { i \in DOMAIN retry_log : retry_log[i].ev = "op" }
NumOps == Cardinality(OpEvents)
NumSleeps == Cardinality({ i \in DOMAIN retry_log : retry_log[i].ev = "sleep" })
FailedOps == { i \in OpEvents : retry_log[i].result # None /\ retry_log[i].result[1].tag = "Err" }
ErrorOf(i) == retry_log[i].result[1].val
OpsUpTo(i) == Cardinality({ j \in OpEvents : j <= i })
ReturnedOk == retry_returned # None /\ retry_returned[1].tag = "Ok"
ReturnedErr == retry_returned # None /\ retry_returned[1].tag = "Err"

InvocationsBounded ==
    /\ retry_pc = "returned" => NumOps >= 1
    /\ NumOps <= Max(config.max_attempts, 1)
    /\ (retry_pc = "returned" /\ config.max_attempts = 0) => NumOps = 1
    /\ \A i, j \in OpEvents :
          i < j => /\ i \in FailedOps
                   /\ is_retryable_call(is_retryable, ErrorOf(i))
                   /\ OpsUpTo(i) < config.max_attempts

\* C17: retry_with_backoff invokes the operation at least once and at most
\* max_attempts times (exactly once when max_attempts is 0), invokes it again
\* only after a failure that is_retryable accepts and while fewer than
\* max_attempts invocations were made, and always returns.
C17_BoundedAndReturns == []InvocationsBounded /\ <>(retry_pc = "returned")

\* C18: when the operation fails k times with a retryable error and then
\* succeeds, with k < max_attempts, retry_with_backoff goes on to the
\* invocation k + 1 and returns its success after exactly k + 1 invocations
\* and k sleeps.
C18_SuccessAfterTransient ==
    /\ ReturnedOk =>
          /\ NumOps = Cardinality(FailedOps) + 1
          /\ NumSleeps = Cardinality(FailedOps)
          /\ retry_log[Len(retry_log)].result = Some(Ok(retry_returned[1].val))
    /\ (/\ FailedOps = OpEvents
        /\ \A i \in FailedOps : is_retryable_call(is_retryable, ErrorOf(i))
        /\ NumOps < config.max_attempts) => retry_pc # "returned"

C18_Witness ==
    /\ ReturnedOk
    /\ config.max_attempts = 3
    /\ NumOps = 3
    /\ NumSleeps = 2

\* C19: an error is_retryable rejects is returned at once, with no sleep and
\* no invocation after it; when it is the first attempt's error the operation
\* was invoked exactly once.
C19_TerminalErrorReturned ==
    \A i \in FailedOps :
        ~is_retryable_call(is_retryable, ErrorOf(i)) =>
            /\ i = Len(retry_log)
            /\ retry_pc = "returned"
            /\ ReturnedErr
            /\ retry_returned[1].val = ErrorOf(i)
            /\ i = 1 => NumOps = 1

C19_Witness ==
    /\ retry_pc = "returned"
    /\ is_retryable = "default"
    /\ config.max_attempts = 3
    /\ NumOps = 1
    /\ ReturnedErr
    /\ retry_returned[1].val.kind = "NotFound"

\* C20: the error retry_with_backoff returns is the error of the last
\* invocation of the operation.
C20_LastErrorReturned ==
    ReturnedErr =>
        /\ retry_log[Len(retry_log)].ev = "op"
        /\ Len(retry_log) \in FailedOps
        /\ retry_returned[1].val = ErrorOf(Len(retry_log))

C20_Witness ==
    /\ ReturnedErr
    /\ NumOps = 2
    /\ ErrorOf(1) # retry_returned[1].val

\* a - b for b <= a
u64_sub(a, b) ==
    LET d4 == a[4] - b[4]
        d3 == a[3] - b[3] - (IF d4 < 0 THEN 1 ELSE 0)
        d2 == a[2] - b[2] - (IF d3 < 0 THEN 1 ELSE 0)
        d1 == a[1] - b[1] - (IF d2 < 0 THEN 1 ELSE 0)
    IN  << d1 % Limb, d2 % Limb, d3 % Limb, d4 % Limb >>
ProductFits == ~u64_shl_overflows(config.initial_backoff_ms, Min(attempt - 1, 10))
\* min(initial_backoff * 2^min(n-1, 10), max_backoff), for a product that fits
CappedBackoff ==
    u64_min(u64_shl(config.initial_backoff_ms, Min(attempt - 1, 10)), config.max_backoff_ms)

\* C21: for every attempt number n >= 1 and every config the product
\* initial_backoff * 2^min(n-1, 10) does not wrap around, and the sleep is
\* capped + jitter with 0 <= jitter < capped, so it lies in [capped, 2*capped)
\* and never exceeds 2 * max_backoff.
C21_BackoffFormula ==
    backoff # None =>
        /\ ProductFits
        /\ backoff[1].tag = "Ok"
        /\ u64_le(CappedBackoff, backoff[1].val)
        /\ u64_lt(u64_sub(backoff[1].val, CappedBackoff), CappedBackoff)
        /\ \/ u64_le(backoff[1].val, config.max_backoff_ms)
           \/ u64_le(u64_sub(backoff[1].val, config.max_backoff_ms), config.max_backoff_ms)

\* messages of the pool that name a transient network condition
TransientNetworkMessages ==
    { msg_connection_reset, msg_connection_refused, msg_timeout, msg_429,
      msg_too_many_requests, msg_503, msg_service_unavailable }

\* C22: is_retryable_error returns true for connection-reset,
\* connection-refused, timeout, 429 / too-many-requests, 503 /
\* service-unavailable and 'temporary' errors, and false for every
\* authentication, not-found, conflict, invalid-path and configuration error,
\* whatever its message is.
C22_DefaultClassification ==
    classified # None =>
        LET e == error_arg[1]
        IN  /\ (e.kind = "Network" /\ e.msg \in TransientNetworkMessages) => classified[1]
            /\ (e.kind = "Io" /\ e.io_kind \in { "ConnectionReset", "ConnectionRefused", "TimedOut" })
                  => classified[1]
            /\ (e.kind = "General" /\ e.msg \in { msg_temporary, msg_timeout }) => classified[1]
            /\ e.kind \in { "Auth", "NotFound", "Conflict", "InvalidPath", "Config" }
                  => ~classified[1]

C22_Witness ==
    /\ classified = Some(FALSE)
    /\ error_arg[1].kind = "NotFound"
    /\ error_arg[1].msg = msg_timeout

\* the ListResult the i-th list request was answered with
AnsweredPage(i) == page_for(pages, list_requests[i])
ListedOk == list_returned # None /\ list_returned[1].tag = "Ok"
ListedErr == list_returned # None /\ list_returned[1].tag = "Err"
Listing == list_returned[1].val
\* the last path segment of an absolute key
LastSegment(key) == LET segs == split(key, "/", << >>) IN segs[Len(segs)]
\* the relative key the specification records an item under
RecordedKey(item) ==
    LET rel == relative_key(item.key, base_prefix)
    IN  IF rel = << >> THEN LastSegment(item.key) ELSE rel
\* the non-directory items of the pages answered, as << request, position >>
FileItems ==
    { ip \in (DOMAIN list_requests) \X (1 .. MaxListed) :
        /\ ip[2] <= Len(AnsweredPage(ip[1]).items)
        /\ ~AnsweredPage(ip[1]).items[ip[2]].is_dir }
ItemAt(ip) == AnsweredPage(ip[1]).items[ip[2]]

PagesFollowTokens ==
    /\ list_requests # << >> => list_requests[1] = None
    /\ \A i \in 2 .. Len(list_requests) :
          /\ AnsweredPage(i - 1).truncated
          /\ list_requests[i] = AnsweredPage(i - 1).continuation_token
    /\ ListedOk => ~AnsweredPage(Len(list_requests)).truncated
    /\ (list_pc = "loop" /\ list_requests # << >>) => AnsweredPage(Len(list_requests)).truncated

\* C23: list_objects_map requests the pages one at a time, each request after
\* the first with the continuation token of the page before, and stops at the
\* first page that is not truncated; the Listing it returns has an entry for
\* every non-directory item of every page.
C23_Paging ==
    /\ PagesFollowTokens
    /\ ListedOk => \A ip \in FileItems : RecordedKey(ItemAt(ip)) \in DOMAIN Listing

\* the items whose relative key is empty
RootItems == { ip \in FileItems : relative_key(ItemAt(ip).key, base_prefix) = << >> }

\* C25: an item whose key is the root itself (empty relative key) is recorded
\* under the last path segment of its absolute key, in the diff pipeline and
\* the mirror pipeline alike: a root naming a single object gives a Listing of
\* exactly one entry, not an empty Listing and not an empty key.
C25_SingleObjectRoot ==
    ListedOk =>
        /\ \A ip \in RootItems : LastSegment(ItemAt(ip).key) \in DOMAIN Listing
        /\ << >> \notin DOMAIN Listing
        /\ (FileItems # {} /\ RootItems = FileItems) => Cardinality(DOMAIN Listing) = 1

(***************************************************************************)
(* Directory markers                                                       *)
(***************************************************************************)
\* the items the store of a side answers with, over all its pages
ListedItems(side) ==
    UNION { { listed[side][i].items[j] : j \in DOMAIN listed[side][i].items } :
            i \in DOMAIN listed[side] }
DirectoryMarkers(side) == { it \in ListedItems(side) : it.is_dir }
DirectoryKeys(side) == { relative_key(it.key, paths[side]) : it \in DirectoryMarkers(side) }
AllDirectoryKeys == DirectoryKeys("first") \cup DirectoryKeys("second")

\* C24: an item the store marks as a directory is skipped by the listing: its
\* key is no key of the Listing of its side (diff's first/second, mirror's
\* source/target), no comparison entry carries it, and mirror issues no get,
\* put or delete for it.
C24_DirectoriesSkipped ==
    /\ DirectoryKeys("first") \cap (DOMAIN first \cup DOMAIN source_objects) = {}
    /\ DirectoryKeys("second") \cap (DOMAIN second \cup DOMAIN target_objects) = {}
    /\ \A i \in DOMAIN entries : entries[i].key \notin AllDirectoryKeys
    /\ \A i \in DOMAIN diff_entries : diff_entries[i].key \notin AllDirectoryKeys
    /\ \A i \in DOMAIN calls : calls[i].key \notin AllDirectoryKeys

\* mirror ran to its end over two stores that each hold a directory marker
\* and issued calls
C24_Witness ==
    /\ command = "mirror"
    /\ pc = "done"
    /\ DirectoryMarkers("first") # {}
    /\ DirectoryMarkers("second") # {}
    /\ calls # << >>

(***************************************************************************)
(* A failing list request                                                  *)
(***************************************************************************)
NothingDone ==
    /\ cmp = "none"
    /\ entries = << >>
    /\ summary = None
    /\ diff_entries = << >>
    /\ to_copy = << >>
    /\ to_remove = << >>
    /\ calls = << >>
    /\ output = None

\* C26: when a page request of either listing fails, whichever page it is,
\* list_objects_map returns the error and no Listing, and the command stops
\* with the error exit code: nothing is compared, planned or reported, and
\* no get, put or delete is issued.
C26_ListingFailureStops ==
    ListedErr =>
       /\ Listing \in { Network(e) : e \in ListSdkErrors }
                      \cup { NotFound(lit_Bucket_not_found \o path_bucket) }
       /\ pc = "done"
       /\ exit_code = "NetworkError"
       /\ NothingDone
       /\ second = EmptyMap
       /\ target_objects = EmptyMap

\* the request of the second page of the second store failed after the
\* first listing and the first page, which held an item, had been read
C26_Witness ==
    /\ ListedErr
    /\ pc = "done"
    /\ first # EmptyMap \/ source_objects # EmptyMap
    /\ pages = listed.second
    /\ Len(list_requests) = 2
    /\ objects # EmptyMap

(***************************************************************************)
(* Exit codes                                                              *)
(***************************************************************************)
\* the status of every key of the two Listings, Same ones included
UnfilteredStatuses ==
    LET o1 == CHOOSE o \in Orders(DOMAIN first) : TRUE
        o2 == CHOOSE o \in Orders(DOMAIN second) : TRUE
        es == compare_objects(first, second, FALSE, o1, o2)
    IN  { es[i].status : i \in DOMAIN es }
DiffReturned == command = "diff" /\ cmp = "diff" /\ pc = "done"
MirrorReturned ==
    command = "mirror" /\ ~args.dry_run /\ pc = "done" /\ ListedOk

\* C27: once the two Listings are compared, diff returns Success exactly
\* when no key has status Different, OnlyFirst or OnlySecond, with diff_only
\* or without it, and GeneralError otherwise; a mirror that is no dry run
\* returns Success exactly when errors = 0, and GeneralError otherwise.
C27_ExitCodes ==
    /\ DiffReturned =>
          /\ exit_code \in { "Success", "GeneralError" }
          /\ exit_code = "Success" <=>
                UnfilteredStatuses \cap { "Different", "OnlyFirst", "OnlySecond" } = {}
    /\ MirrorReturned =>
          /\ exit_code \in { "Success", "GeneralError" }
          /\ exit_code = "Success" <=> errors = 0

\* diff_only hid the only entry, a Same one, and diff returned Success
C27_Witness ==
    /\ DiffReturned
    /\ diff_only
    /\ UnfilteredStatuses = { "Same" }
    /\ entries = << >>
    /\ exit_code = "Success"

(***************************************************************************)
(* The counters of the mirror run                                          *)
(***************************************************************************)
\* the step ends the iteration of the copy loop / of the remove loop: the
\* awaited call of the attempt resolved and the loop moved on
CopyAttemptEnds == pc \in { "get", "put" } /\ pc' \notin { "get", "put" }
DeleteAttemptEnds == pc = "delete" /\ pc' # "delete"
OneMore(x, y) == x = y + 1
CountersStep ==
    /\ copied' >= copied
    /\ removed' >= removed
    /\ errors' >= errors
    /\ CopyAttemptEnds =>
          /\ \/ OneMore(copied', copied) /\ errors' = errors
             \/ OneMore(errors', errors) /\ copied' = copied
          /\ removed' = removed
    /\ DeleteAttemptEnds =>
          /\ \/ OneMore(removed', removed) /\ errors' = errors
             \/ OneMore(errors', errors) /\ removed' = removed
          /\ copied' = copied
    /\ ~CopyAttemptEnds /\ ~DeleteAttemptEnds => UNCHANGED << copied, removed, errors >>

\* C28: in every step of a mirror run copied, removed and errors never
\* decrease; the step that ends an attempted copy adds exactly 1 to exactly
\* one of copied and errors, the step that ends an attempted delete adds
\* exactly 1 to exactly one of removed and errors, and no other step
\* changes a counter.
C28_CountersStep == [][CountersStep]_vars

\* between two iterations of the remove loop, after a copy succeeded,
\* another attempt failed and a delete succeeded
C28_Witness ==
    /\ pc = "remove"
    /\ idx = 2
    /\ copied = 1
    /\ removed = 1
    /\ errors = 1

(***************************************************************************)
(* Copies: the get, then the put                                           *)
(***************************************************************************)
\* the positions in calls of the calls of an operation on a key
CallsOf(op, key) == { i \in DOMAIN calls : calls[i].op = op /\ calls[i].key = key }
\* the keys of to_copy whose get and whose put both returned Ok
CopiedKeys ==
    { to_copy[j][1] : j \in { n \in DOMAIN to_copy :
        /\ \E g \in CallsOf("get", to_copy[n][1]) : calls[g].result = "ok"
        /\ \E p \in CallsOf("put", to_copy[n][1]) : calls[p].result = "ok" } }
DeletedKeys == { calls[i].key : i \in { d \in DOMAIN calls :
                    calls[d].op = "delete" /\ calls[d].result = "ok" } }

\* C29: every put of a key directly follows the get of that key, and that
\* get returned Ok: no put is issued for a key whose get failed.  When the
\* run is over, copied is the number of to_copy keys whose get and put both
\* succeeded, removed is the number of deletes that succeeded, and the
\* reported counters are these two and the skipped count of the plan.
C29_GetThenPut ==
    /\ \A p \in DOMAIN calls :
          calls[p].op = "put" =>
             /\ p > 1
             /\ calls[p - 1].op = "get"
             /\ calls[p - 1].key = calls[p].key
             /\ calls[p - 1].result = "ok"
    /\ \A j \in DOMAIN to_copy :
          /\ Cardinality(CallsOf("get", to_copy[j][1])) <= 1
          /\ Cardinality(CallsOf("put", to_copy[j][1])) <= 1
    /\ Finished =>
          /\ copied = Cardinality(CopiedKeys)
          /\ removed = Cardinality(DeletedKeys)
          /\ Cardinality(DeletedKeys) = CountCalls({"delete"}, "ok")
          /\ output = Some(MirrorOutput(Cardinality(CopiedKeys), Cardinality(DeletedKeys),
                                        mirror_plan(diff_entries, source_objects, args).skipped,
                                        errors, FALSE))

\* a finished run over three to_copy keys: the get of one failed, the put of
\* another failed, the third was copied
C29_Witness ==
    /\ Finished
    /\ Len(to_copy) = 3
    /\ copied = 1
    /\ \E g \in DOMAIN calls : calls[g].op = "get" /\ calls[g].result = "err"
    /\ \E p \in DOMAIN calls : calls[p].op = "put" /\ calls[p].result = "err"

(***************************************************************************)
(* A relative key yielded more than once                                   *)
(***************************************************************************)
\* the file items yielded under the relative key k
Occurrences(k) == { ip \in FileItems : relative_key(ItemAt(ip).key, base_prefix) = k }
\* page order: the order of the requests, then the order within the page
Precedes(ip, jp) == ip[1] < jp[1] \/ (ip[1] = jp[1] /\ ip[2] < jp[2])
LastOccurrence(k) ==
    CHOOSE ip \in Occurrences(k) : \A jp \in Occurrences(k) : jp = ip \/ Precedes(jp, ip)

\* C30: when the pages yield the same relative key more than once, in one
\* page or in several, the Listing maps the key to the fingerprint of its
\* last occurrence in page order (one entry: the Listing is a map), and the
\* listing returns Ok: the only errors it returns are those of a failed page
\* request.
C30_LastOccurrenceWins ==
    /\ ListedOk =>
          \A ip \in FileItems :
             LET k == relative_key(ItemAt(ip).key, base_prefix)
             IN  k # << >> =>
                    /\ k \in DOMAIN Listing
                    /\ Listing[k] = item_file_info(ItemAt(LastOccurrence(k)))
    /\ ListedErr => Listing \in { list_objects_error(e, list_path) : e \in ListSdkErrors }

\* a Listing returned after two pages yielded one relative key with two
\* fingerprints
C30_Witness ==
    /\ ListedOk
    /\ \E ip \in FileItems, jp \in FileItems :
          /\ ip[1] < jp[1]
          /\ relative_key(ItemAt(ip).key, base_prefix) # << >>
          /\ relative_key(ItemAt(ip).key, base_prefix) = relative_key(ItemAt(jp).key, base_prefix)
          /\ ItemAt(ip).key # ItemAt(jp).key
          /\ item_file_info(ItemAt(ip)) # item_file_info(ItemAt(jp))

(***************************************************************************)
(* The order of the plan and of the calls                                  *)
(***************************************************************************)
EntryKeySeq(es) == [i \in DOMAIN es |-> es[i].key]
\* the keys of ks that are in S, in the order of ks
Restrict(ks, S) == SelectSeq(ks, LAMBDA k : k \in S)
Ascending(ks) == \A i \in 1 .. (Len(ks) - 1) : cmp_str(ks[i], ks[i + 1]) = "Less"
IsPrefix(p, q) == Len(p) <= Len(q) /\ p = SubSeq(q, 1, Len(p))

\* C31: to_copy and to_remove are subsequences of the entry sequence of the
\* comparison, hence in ascending key order; the gets are issued in the
\* order of to_copy, each put after its get, the deletes in the order of
\* to_remove, and every delete after every get and put.
C31_PlanOrder ==
    /\ PlanCopyKeys([to_copy |-> to_copy]) = Restrict(EntryKeySeq(diff_entries), CopyKeys)
    /\ to_remove = Restrict(EntryKeySeq(diff_entries), RemoveKeys)
    /\ Ascending(PlanCopyKeys([to_copy |-> to_copy]))
    /\ Ascending(to_remove)
    /\ IsPrefix(CallKeySeq("get"), PlanCopyKeys([to_copy |-> to_copy]))
    /\ CallKeySeq("put") = Restrict(CallKeySeq("get"), CallKeys("put"))
    /\ IsPrefix(CallKeySeq("delete"), to_remove)
    /\ \A d \in DOMAIN calls, c \in DOMAIN calls :
          calls[d].op = "delete" /\ calls[c].op \in { "get", "put" } => c < d
    /\ Finished =>
          /\ CallKeySeq("get") = PlanCopyKeys([to_copy |-> to_copy])
          /\ args.remove => CallKeySeq("delete") = to_remove

\* a finished run that copied two keys in ascending order and then deleted
\* a key that sorts between them
C31_Witness ==
    /\ Finished
    /\ Len(to_copy) = 2
    /\ to_remove # << >>
    /\ Len(calls) = 5
    /\ cmp_str(to_copy[1][1], to_remove[1]) = "Less"
    /\ cmp_str(to_remove[1], to_copy[2][1]) = "Less"

(***************************************************************************)
(* The plan's two lists are disjoint and without repetition                *)
(***************************************************************************)
NoRepetition(ks) == \A i, j \in DOMAIN ks : ks[i] = ks[j] => i = j

\* C32: whatever the Listings and the flags, no key is in both to_copy and
\* to_remove, and no key occurs twice in to_copy or twice in to_remove.
C32_PlanDisjoint ==
    /\ CopyKeys \cap RemoveKeys = {}
    /\ NoRepetition(PlanCopyKeys([to_copy |-> to_copy]))
    /\ NoRepetition(to_remove)

\* a plan that overwrites a Different key and removes an OnlySecond key
C32_Witness ==
    /\ pc = "planned"
    /\ args.overwrite
    /\ Len(to_copy) = 1
    /\ Len(to_remove) = 1
    /\ \E i \in DOMAIN diff_entries : diff_entries[i].status = "Different"

(***************************************************************************)
(* The fingerprint data of an entry                                        *)
(***************************************************************************)
\* the entry carries, for one side, the size and the modification time the
\* Listing of that side holds for its key, and nothing when the key is not
\* in that Listing; a materialized Listing holds a size for every key
SideData(size, modified, listing, key) ==
    /\ size # None <=> key \in DOMAIN listing
    /\ key \in DOMAIN listing =>
          size = listing[key].size /\ modified = listing[key].modified
    /\ key \notin DOMAIN listing => modified = None
CarriesListingData(es, fst, snd) ==
    \A i \in DOMAIN es :
       /\ SideData(es[i].first_size, es[i].first_modified, fst, es[i].key)
       /\ SideData(es[i].second_size, es[i].second_modified, snd, es[i].key)

\* C33: every comparison entry carries first-side data (first_size,
\* first_modified) iff its key is in the first Listing and second-side data
\* iff its key is in the second Listing, and the data are the values the
\* Listing holds for the key; in diff's entries and in mirror's.
C33_EntryData ==
    /\ CarriesListingData(entries, first, second)
    /\ CarriesListingData(diff_entries, source_objects, target_objects)

\* diff compared a key that differs, held by both Listings, and a key only
\* the second Listing holds
C33_Witness ==
    /\ command = "diff"
    /\ pc = "done"
    /\ \E i \in DOMAIN entries : entries[i].status = "Different"
    /\ \E i \in DOMAIN entries : entries[i].status = "OnlySecond"

(***************************************************************************)
(* One comparison for diff and mirror                                      *)
(***************************************************************************)
\* C34: for all Listings A and B, diff's compare_objects(A, B, false) and
\* mirror's compare_objects_internal(A, B) return the same entry sequence:
\* the same keys, statuses, sizes and modification fields in the same order.
C34_SameComparison ==
    /\ (cmp = "diff" /\ ~diff_only) =>
          entries = compare_objects_internal(first, second, SomeOrder(DOMAIN first),
                                             SomeOrder(DOMAIN second))
    /\ cmp = "mirror" =>
          entries = compare_objects(first, second, FALSE, SomeOrder(DOMAIN first),
                                    SomeOrder(DOMAIN second))

\* mirror's comparison of a key that is Same only because the first side
\* has no etag, and of a second key
C34_Witness ==
    /\ cmp = "mirror"
    /\ Len(entries) = 2
    /\ \E i \in DOMAIN entries :
          /\ entries[i].status = "Same"
          /\ first[entries[i].key].etag = None
          /\ second[entries[i].key].etag # None

(***************************************************************************)
(* Determinism of compare and plan                                         *)
(***************************************************************************)
\* C35: the entry sequence of the comparison does not depend on the order
\* in which the two hash-map Listings are enumerated, and planning the
\* entries again with the same flags gives the same to_copy, to_remove and
\* skipped: whatever the enumeration, comparing and planning again gives
\* the entries and the plan the run holds.
C35_Deterministic ==
    pc = "planned" =>
       \A o1 \in Orders(DOMAIN source_objects), o2 \in Orders(DOMAIN target_objects) :
          LET es == compare_objects_internal(source_objects, target_objects, o1, o2)
              plan == mirror_plan(es, source_objects, args)
          IN  /\ es = diff_entries
              /\ plan = [to_copy |-> to_copy, to_remove |-> to_remove, skipped |-> skipped]

\* a plan over three keys, two of them in the source Listing, which can be
\* enumerated in two orders
C35_Witness ==
    /\ pc = "planned"
    /\ Cardinality(DOMAIN source_objects) = 2
    /\ Cardinality(DOMAIN target_objects) = 1
    /\ Len(diff_entries) = 3

(***************************************************************************)
(* The source store is only read                                           *)
(***************************************************************************)
\* C36: in every diff run and every mirror run, dry or real, every put and
\* every delete is issued against the destination store, the only call the
\* source store gets besides the list requests is get, and the content of
\* the source store stays what the listing found; diff issues no get, put
\* or delete at all.
C36_SourceReadOnly ==
    /\ \A i \in DOMAIN calls :
          /\ calls[i].op \in { "put", "delete" } => calls[i].store = "target"
          /\ calls[i].store = "source" => calls[i].op = "get"
    /\ source_store = StoreContent(listed.first)
    /\ command = "diff" => calls = << >> /\ target_store = StoreContent(listed.second)
    /\ args.dry_run => calls = << >> /\ target_store = StoreContent(listed.second)

\* a real mirror run that read the source and changed the destination by a
\* put and by a delete
C36_Witness ==
    /\ command = "mirror"
    /\ pc = "done"
    /\ \E i \in DOMAIN calls : calls[i].op = "put" /\ calls[i].result = "ok"
    /\ \E i \in DOMAIN calls : calls[i].op = "delete" /\ calls[i].result = "ok"
    /\ target_store # StoreContent(listed.second)

(***************************************************************************)
(* Relative keys and absolute keys                                         *)
(***************************************************************************)
\* the absolute keys of the file items the listing of a side recorded under
\* the relative key k
RecordedFrom(side, k) ==
    { it.key : it \in { x \in ListedItems(side) :
                          ~x.is_dir /\ relative_key(x.key, paths[side]) = k } }

\* C37: the get for a relative key k is issued at the absolute key K of the
\* source item the listing recorded under k, and the delete for k at the
\* absolute key the target listing reported for it, whatever the root and
\* the key (roots off a '/' boundary, keys with repeated '/').
C37_KeyRoundTrip ==
    \A i \in DOMAIN calls :
       /\ calls[i].op = "get" => \A K \in RecordedFrom("first", calls[i].key) : calls[i].path.key = K
       /\ calls[i].op = "delete" =>
             \A K \in RecordedFrom("second", calls[i].key) : calls[i].path.key = K

(***************************************************************************)
(* One list request per page                                               *)
(***************************************************************************)
\* the page of the chain a request is answered with
PageOf(i) == IF list_requests[i] = None THEN 1 ELSE list_requests[i][1]

\* C38: over a finite chain of pages list_objects_map never requests a page
\* twice, also when a page is flagged truncated and carries no continuation
\* token, and it returns after exactly one request per page.
C38_OneRequestPerPage ==
    /\ \A i, j \in DOMAIN list_requests : PageOf(i) = PageOf(j) => i = j
    /\ ListedOk => Len(list_requests) = Len(pages)

(***************************************************************************)
(* diff_only                                                               *)
(***************************************************************************)
\* the comparison of the two Listings with nothing hidden
Unfiltered ==
    compare_objects(first, second, FALSE, SomeOrder(DOMAIN first), SomeOrder(DOMAIN second))
NotSame(es) == SelectSeq(es, LAMBDA e : e.status # "Same")

\* C39: with diff_only the entries are those of the comparison without it,
\* less the Same ones, in the same order and with the same data; the
\* different, only_first and only_second counts of the summary and the exit
\* code are those of the comparison without diff_only; and same + different
\* + only_first + only_second = total = the number of entries.
C39_DiffOnlyHidesSame ==
    DiffReturned =>
       /\ entries = IF diff_only THEN NotSame(Unfiltered) ELSE Unfiltered
       /\ summary # None
       /\ summary[1].different = CountStatus(Unfiltered, "Different")
       /\ summary[1].only_first = CountStatus(Unfiltered, "OnlyFirst")
       /\ summary[1].only_second = CountStatus(Unfiltered, "OnlySecond")
       /\ summary[1].same = IF diff_only THEN 0 ELSE CountStatus(Unfiltered, "Same")
       /\ exit_code = IF has_differences(DiffSummary(Unfiltered))
                      THEN "GeneralError" ELSE "Success"
       /\ summary[1].same + summary[1].different + summary[1].only_first
             + summary[1].only_second = summary[1].total
       /\ summary[1].total = Len(entries)

\* diff_only hid a Same entry and kept the one other entry
C39_Witness ==
    /\ DiffReturned
    /\ diff_only
    /\ Len(Unfiltered) = 2
    /\ Len(entries) = 1
    /\ exit_code = "GeneralError"

(***************************************************************************)
(* Convergence of mirror                                                   *)
(***************************************************************************)
\* the Listing a new mirror run would materialize from a store: the store
\* lists its keys in ascending order, the last key of a relative key wins
Relisted(store, root) ==
    LET rel(K) == relative_key(K, root)
        last(k) == CHOOSE K \in DOMAIN store :
                      /\ rel(K) = k
                      /\ \A L \in DOMAIN store : rel(L) = k => cmp_str(L, K) # "Greater"
    IN  [k \in { rel(K) : K \in DOMAIN store } \ { << >> } |-> store[last(k)]]
Recompared ==
    LET src == Relisted(source_store, paths.first)
        dst == Relisted(target_store, paths.second)
    IN  compare_objects_internal(src, dst, SomeOrder(DOMAIN src), SomeOrder(DOMAIN dst))
Converged ==
    /\ DOMAIN Relisted(target_store, paths.second) = DOMAIN Relisted(source_store, paths.first)
    /\ \A i \in DOMAIN Recompared : Recompared[i].status = "Same"
    /\ LET plan == mirror_plan(Recompared, Relisted(source_store, paths.first), args)
       IN  plan.to_copy = << >> /\ plan.to_remove = << >>
MirroredClean ==
    /\ command = "mirror"
    /\ pc = "done"
    /\ exit_code = "Success"
    /\ ~args.dry_run /\ args.overwrite /\ args.remove
    /\ errors = 0

\* C40: after a real mirror run with overwrite and remove that ends with
\* errors = 0, the destination's key set under its root is the source's,
\* comparing again gives only Same entries, and a second run with the same
\* flags plans no copy and no delete.
C40_MirrorConverges == MirroredClean => Converged

====
